---- MODULE Spec2Model ----
(***************************************************************************)
(* Model of the OpenX2Argoverse map compilers: the drivable-area, ground-  *)
(* height, bounding-box and vector-map scripts, in their per-file and      *)
(* merged ("_multi") variants.                                             *)
(*                                                                         *)
(* Lengths are integers counted in units of 0.00001 m, one decimal more    *)
(* than the four decimals the vector-map script rounds to, so that the     *)
(* grid resolution 0.5 m, the lane width 3.5 m, the bbox half width 1.75 m *)
(* and a rounding step are all whole numbers.  Headings are quarter turns, *)
(* for which cos and sin are taken as exactly -1, 0 or 1.  Arithmetic is   *)
(* exact: the rounding error of binary floating point is not modelled.     *)
(***************************************************************************)
EXTENDS Integers, Sequences, FiniteSets, TLC

VARIABLES
    prog,               \* which script runs
    batch,              \* the .xodr documents of the input folder, in order
    options,            \* the keyword arguments of batch_process_xosc_files
    counter,            \* the counter of sequential file names
    pc,                 \* where the script is
    idx,                \* the document the current loop is at
    ret_bounds,         \* what the latest call of calculate_map_bounds returned
    global_bounds,      \* global_min_x, global_max_x, global_min_y, global_max_y
    xodr_paths,         \* the documents kept for the second stage
    grid_rows, grid_cols,
    global_driveable,   \* the cells of the merged occupancy grid that are 1
    global_height,      \* the cells of the merged height grid that are not nan
    global_nodes, global_ways, global_mapping, existing_lane_ids,
    table_idx_counter,
    issued,             \* every value generate_unique_lane_id returned
    last_draw,          \* lane_id of the loop of generate_unique_lane_id: its
                        \* latest draw, followed draw by draw in SpecGen only
    all_bboxes,
    errors,             \* the documents an "Error processing" line names
    saved               \* the artifacts written so far

inputVars == <<prog, batch, options>>
gridVars == <<global_bounds, xodr_paths, grid_rows, grid_cols,
              global_driveable, global_height>>
graphVars == <<global_nodes, global_ways, global_mapping, existing_lane_ids,
               table_idx_counter>>
vars == <<inputVars, pc, idx, ret_bounds, gridVars, graphVars, issued,
          last_draw, counter, all_bboxes, errors, saved>>

-----------------------------------------------------------------------------
(* Bounds of the model *)

MaxDocs == 2

-----------------------------------------------------------------------------
(* Program constants *)

\* resolution = 0.5 (metres)
resolution == 50000
\* 1 (metre), the upper default bound of (0, 1, 0, 1)
Metre == 100000
\* float('inf') and float('-inf'): beyond every coordinate of the model
PosInf == 1000000000
NegInf == 0 - PosInf
\* a quarter of a metre, the grain of the sample documents
Q == resolution \div 2

-----------------------------------------------------------------------------
(* Arithmetic helpers *)

Min2(a, b) == IF a <= b THEN a ELSE b
Max2(a, b) == IF a >= b THEN a ELSE b
Min3(a, b, c) == Min2(a, Min2(b, c))
Max3(a, b, c) == Max2(a, Max2(b, c))
Abs(a) == IF a >= 0 THEN a ELSE 0 - a

\* inf - w = inf, -inf - w = -inf
MinusF(a, w) == IF a = PosInf \/ a = NegInf THEN a ELSE a - w
PlusF(a, w) == IF a = PosInf \/ a = NegInf THEN a ELSE a + w
\* max_x - min_x in float arithmetic: -inf - inf = -inf
DiffF(hi, lo) == IF hi = NegInf \/ lo = PosInf THEN NegInf
                 ELSE IF hi = PosInf \/ lo = NegInf THEN PosInf
                 ELSE hi - lo

\* int(a / b) for b > 0: Python truncates toward zero
IntDiv(a, b) == IF a >= 0 THEN a \div b ELSE 0 - ((0 - a) \div b)
\* int(np.ceil(a / b)) for b > 0
CeilDiv(a, b) == 0 - ((0 - a) \div b)

\* np.cos(hdg), np.sin(hdg) for hdg a number of quarter turns
Cos(h) == CASE h = 0 -> 1 [] h = 1 -> 0 [] h = 2 -> 0 - 1 [] OTHER -> 0
Sin(h) == CASE h = 0 -> 0 [] h = 1 -> 1 [] h = 2 -> 0 [] OTHER -> 0 - 1

-----------------------------------------------------------------------------
(* Input documents.  A document is what ET.parse gives: whether it parses, *)
(* and its roads; a road has geometry primitives and the lanes of its lane *)
(* sections, flattened in document order.                                  *)

\* <geometry x y hdg length> with an <elevation a> below it; the arguments
\* of the constructors are counted in quarter metres
Geom(x, y, hdg, length, e) ==
    [has_xy |-> TRUE, x |-> x * Q, y |-> y * Q, hdg |-> hdg,
     length |-> length * Q, has_elev |-> TRUE, elev_ok |-> TRUE, elev |-> e]
\* a geometry without elevation
GeomFlat(x, y, hdg, length) ==
    [has_xy |-> TRUE, x |-> x * Q, y |-> y * Q, hdg |-> hdg,
     length |-> length * Q, has_elev |-> FALSE, elev_ok |-> TRUE, elev |-> 0]
\* a geometry without its x attribute: float(None) raises
GeomNoX(y, hdg, length) ==
    [has_xy |-> FALSE, x |-> 0, y |-> y * Q, hdg |-> hdg,
     length |-> length * Q, has_elev |-> FALSE, elev_ok |-> TRUE, elev |-> 0]
\* a geometry whose <elevation a> is not a number: float("abc") raises
GeomBadElev(x, y, hdg, length) ==
    [has_xy |-> TRUE, x |-> x * Q, y |-> y * Q, hdg |-> hdg,
     length |-> length * Q, has_elev |-> TRUE, elev_ok |-> FALSE, elev |-> 0]

\* <lane type> with an optional <width a>, the laneOffset a of its section,
\* the lane's own width attribute (default "3.5") and its id attribute ("1"
\* unless said otherwise, "" when the lane has none)
Lane(type, has_width, a, off, wattr) ==
    [type |-> type, has_width |-> has_width, a |-> a * Q, off |-> off * Q,
     wattr |-> wattr, id |-> "1"]

\* <predecessor elementId> or <successor elementId> below <link>; the road
\* may have none
Element(elementId) == [has |-> TRUE, elementId |-> elementId]
NoElement == [has |-> FALSE, elementId |-> ""]

\* a road with its <link>
RoadLinked(geoms, lanes, predecessor, successor) ==
    [geoms |-> geoms, lanes |-> lanes, predecessor |-> predecessor,
     successor |-> successor]
\* a road without <link>
Road(geoms, lanes) == RoadLinked(geoms, lanes, NoElement, NoElement)
Doc(roads) == [ok |-> TRUE, roads |-> roads]
\* a file ET.parse cannot read
DocUnreadable == [ok |-> FALSE, roads |-> <<>>]

Driving(a) == Lane("driving", TRUE, a, 0, "3.5")

\* no road at all
DocEmpty == Doc(<<>>)
\* the end-to-end scenario: one road of length 10 m from the origin,
\* heading 0, elevation 1, one driving lane of width 3.5 m; the road follows
\* road 0
DocScenario == Doc(<<RoadLinked(<<Geom(0, 0, 0, 40, 1)>>, <<Driving(14)>>,
                                Element("0"), NoElement)>>)
\* a northward road with elevation 2 that starts 0.00004 m east of the
\* origin, which rounds to the origin
DocNorth == Doc(<<Road(<<[Geom(0, 0, 1, 4, 2) EXCEPT !.x = 4]>>,
                       <<Driving(2)>>)>>)
\* one road of a westward and a northward primitive that cross, with a
\* zero-width driving lane and a sidewalk without id in a section with a
\* lane offset; road 7 follows it
DocCross == Doc(<<RoadLinked(<<Geom(8, 0, 2, 8, 3), Geom(4, 0 - 4, 1, 8, 4)>>,
                             <<Lane("driving", TRUE, 0, 0, "3.5"),
                               [Lane("sidewalk", TRUE, 2, 1, "3.0")
                                   EXCEPT !.id = ""]>>,
                             NoElement, Element("7"))>>)
\* two roads: the first one lies between road 5 and road 0; the second one
\* lies further west and south, has no elevation, and its lane has no
\* <width>
DocTwoRoads == Doc(<<RoadLinked(<<Geom(0, 0, 0, 4, 1)>>, <<Driving(2)>>,
                                Element("5"), Element("0")),
                     Road(<<GeomFlat(0 - 1, 0 - 1, 0, 2)>>,
                          <<[Lane("driving", FALSE, 0, 0, "3.5")
                                EXCEPT !.id = "0"]>>)>>)
\* a good road, then a road whose primitive misses x
DocBadX == Doc(<<Road(<<Geom(0 - 3, 6, 0, 6, 1)>>, <<Driving(2)>>),
                 Road(<<GeomNoX(0, 0, 4)>>, <<Driving(2)>>)>>)
\* one road whose second primitive misses x
DocBadMid == Doc(<<Road(<<Geom(1, 1, 0, 2, 5), GeomNoX(0, 0, 4)>>,
                        <<Driving(2)>>)>>)
\* a good primitive, then one with an unparsable elevation
DocBadElev == Doc(<<Road(<<Geom(0, 2, 0, 4, 2), GeomBadElev(0, 0, 0, 4)>>,
                         <<Driving(2)>>)>>)

\* two primitives of length 1 m from the origin, eastward and northward,
\* on a road without lanes: the geometry spans exactly the unit square
DocUnit == Doc(<<Road(<<GeomFlat(0, 0, 0, 4), GeomFlat(0, 0, 1, 4)>>, <<>>)>>)

\* one eastward road of length 1 m with a driving lane of width 0.3 m, which
\* is no multiple of the resolution
DocNarrow == Doc(<<Road(<<Geom(0, 0, 0, 4, 3)>>,
                        <<[Driving(1) EXCEPT !.a = 30000]>>)>>)

\* one road that leaves the origin northward and then eastward; the first
\* primitive starts 0.00004 m west of the origin, which rounds to -0.0
DocSeam == Doc(<<Road(<<[Geom(0, 0, 1, 4, 2) EXCEPT !.x = 0 - 4],
                        Geom(0, 0, 0, 4, 2)>>,
                      <<Driving(2)>>)>>)

\* the file names of the sample documents
DocSet == {"empty", "scenario", "north", "cross", "two_roads", "bad_x",
           "bad_mid", "bad_elev", "unit", "narrow", "seam", "unreadable"}

\* what a file holds
Document(name) ==
    CASE name = "empty" -> DocEmpty
      [] name = "scenario" -> DocScenario
      [] name = "north" -> DocNorth
      [] name = "cross" -> DocCross
      [] name = "two_roads" -> DocTwoRoads
      [] name = "bad_x" -> DocBadX
      [] name = "bad_mid" -> DocBadMid
      [] name = "bad_elev" -> DocBadElev
      [] name = "unit" -> DocUnit
      [] name = "narrow" -> DocNarrow
      [] name = "seam" -> DocSeam
      [] OTHER -> DocUnreadable

\* the input folder: the files in directory-traversal order
Batches == UNION {[1..n -> DocSet] : n \in 0..MaxDocs}

-----------------------------------------------------------------------------
(* calculate_map_bounds *)

Bounds(a, b, c, d) == [min_x |-> a, max_x |-> b, min_y |-> c, max_y |-> d]

\* min_x, max_x, min_y, max_y = inf, -inf, inf, -inf
NoBounds == Bounds(PosInf, NegInf, PosInf, NegInf)
\* return 0, 1, 0, 1
DefaultBounds == Bounds(0, Metre, 0, Metre)

\* x_end = x_start + length * np.cos(hdg)
XEnd(g) == g.x + g.length * Cos(g.hdg)
\* y_end = y_start + length * np.sin(hdg)
YEnd(g) == g.y + g.length * Sin(g.hdg)

\* min_x = min(min_x, x_start, x_end) and the three lines after it
FoldPoint(b, g) ==
    Bounds(Min3(b.min_x, g.x, XEnd(g)), Max3(b.max_x, g.x, XEnd(g)),
           Min3(b.min_y, g.y, YEnd(g)), Max3(b.max_y, g.y, YEnd(g)))

\* the loop over road.findall(".//geometry"); err: float(None) raised
RECURSIVE FoldGeometry(_, _, _)
FoldGeometry(geoms, k, acc) ==
    IF k > Len(geoms) \/ acc.err THEN acc
    ELSE IF ~geoms[k].has_xy THEN [acc EXCEPT !.err = TRUE]
    ELSE FoldGeometry(geoms, k + 1,
                      [acc EXCEPT !.b = FoldPoint(acc.b, geoms[k])])

\* a faulty margin, to compare with: the lane offset is left out
TotalWidthNoOffset(lane) == Abs(IF lane.has_width THEN lane.a ELSE 0)

\* total_width = abs(lane_offset) + abs(lane_width)
TotalWidth(lane) == Abs(lane.off) + Abs(IF lane.has_width THEN lane.a ELSE 0)

\* min_x -= total_width; max_x += total_width; the same for y
Inflate(b, w) == Bounds(MinusF(b.min_x, w), PlusF(b.max_x, w),
                        MinusF(b.min_y, w), PlusF(b.max_y, w))

\* the loop over the lanes of every lane section of one road
RECURSIVE InflateLanes(_, _, _)
InflateLanes(lanes, k, b) ==
    IF k > Len(lanes) THEN b
    ELSE InflateLanes(lanes, k + 1, Inflate(b, TotalWidth(lanes[k])))

\* the loop over root.findall(".//road"); inflate: the drivable-area variant
RECURSIVE FoldRoads(_, _, _, _)
FoldRoads(roads, r, acc, inflate) ==
    IF r > Len(roads) \/ acc.err THEN acc
    ELSE LET g == FoldGeometry(roads[r].geoms, 1, acc)
         IN  IF g.err THEN g
             ELSE FoldRoads(roads, r + 1,
                     IF inflate
                     THEN [g EXCEPT !.b = InflateLanes(roads[r].lanes, 1, g.b)]
                     ELSE g,
                     inflate)

\* the scan of one document: ET.parse, then the roads
ScanBounds(doc, inflate) ==
    IF ~doc.ok THEN [b |-> NoBounds, err |-> TRUE]
    ELSE FoldRoads(doc.roads, 1, [b |-> NoBounds, err |-> FALSE], inflate)

IsUnset(b) == b.min_x = PosInf \/ b.max_x = NegInf
              \/ b.min_y = PosInf \/ b.max_y = NegInf

\* calculate_map_bounds of the drivable-area scripts: the default bounds
\* when nothing was found and when anything raised
calculate_map_bounds(doc) ==
    LET s == ScanBounds(doc, TRUE)
    IN  IF s.err \/ IsUnset(s.b) THEN DefaultBounds ELSE s.b

\* calculate_map_bounds of the height scripts: no inflation, None when
\* anything raised, and the running values as they are otherwise
HightBounds(doc) ==
    LET s == ScanBounds(doc, FALSE)
    IN  [none |-> s.err, b |-> s.b]

\* a faulty fold, to compare with: the bounds of the last document replace
\* the global bounds
MergeBoundsLast(g, b) == b

\* global_min_x = min(global_min_x, min_x) and the three lines after it
MergeBounds(g, b) ==
    Bounds(Min2(g.min_x, b.min_x), Max2(g.max_x, b.max_x),
           Min2(g.min_y, b.min_y), Max2(g.max_y, b.max_y))

\* a faulty matrix, to compare with: the translation with the wrong sign
TransformByPlus(min_x, min_y) ==
    <<<<1, 0, min_x>>, <<0, 1, min_y>>, <<0, 0, 1>>>>

\* calculate_transform_matrix: the rows of the 3x3 matrix
calculate_transform_matrix(min_x, min_y) ==
    <<<<1, 0, 0 - min_x>>, <<0, 1, 0 - min_y>>, <<0, 0, 1>>>>

\* the matrix applied to the homogeneous point (x, y, 1)
Apply(T, x, y) ==
    <<T[1][1] * x + T[1][2] * y + T[1][3], T[2][1] * x + T[2][2] * y + T[2][3]>>

-----------------------------------------------------------------------------
(* Rasterization *)

\* np.arange(-lane_width, lane_width + resolution, resolution)
Offsets(w) ==
    {k * resolution - w : k \in 0..(CeilDiv(2 * w + resolution, resolution) - 1)}

\* range(int(length / resolution)) of the per-file scripts
StepsFile(g) == 0..(IntDiv(g.length, resolution) - 1)
\* range(steps + 1) of the merged scripts
StepsMulti(g) == 0..IntDiv(g.length, resolution)

\* the centerline point at a step, from the translated start point
CenterX(x_start, g, step) == x_start + step * resolution * Cos(g.hdg)
CenterY(y_start, g, step) == y_start + step * resolution * Sin(g.hdg)

\* col = int(x / resolution), row = int(y / resolution)
Cell(x, y) == <<IntDiv(y, resolution), IntDiv(x, resolution)>>

\* if 0 <= row < grid_rows and 0 <= col < grid_cols
InGrid(c, rows, cols) == 0 <= c[1] /\ c[1] < rows /\ 0 <= c[2] /\ c[2] < cols

\* the lateral samples of one lane at every step of one primitive
LaneSamples(g, w, steps, min_x, min_y) ==
    {Cell(CenterX(g.x - min_x, g, s) + o * Sin(g.hdg),
          CenterY(g.y - min_y, g, s) - o * Cos(g.hdg)) :
        s \in steps, o \in Offsets(w)}

\* per-file script: lanes of width 0 and lanes not "driving" are skipped
LaneCellsFile(g, lane, min_x, min_y) ==
    LET lane_width == IF lane.has_width THEN lane.a ELSE 0
    IN  IF lane_width = 0 \/ lane.type # "driving" THEN {}
        ELSE LaneSamples(g, lane_width, StepsFile(g), min_x, min_y)

\* merged script: lanes not "driving" and lanes without <width> are skipped
LaneCellsMulti(g, lane, min_x, min_y) ==
    IF lane.type # "driving" \/ ~lane.has_width THEN {}
    ELSE LaneSamples(g, lane.a, StepsMulti(g), min_x, min_y)

\* the cells one primitive sets to 1: all lanes of its road, inside the grid
GeomCells(road, g, min_x, min_y, rows, cols, multi) ==
    {c \in UNION {IF multi THEN LaneCellsMulti(g, road.lanes[k], min_x, min_y)
                  ELSE LaneCellsFile(g, road.lanes[k], min_x, min_y) :
                  k \in 1..Len(road.lanes)} : InGrid(c, rows, cols)}

\* a faulty write policy, to compare with: the writes of a primitive replace
\* the cells set before it
SetCellsReplacing(grid, cells) == cells

\* driveable_area[grid_y, grid_x] = 1
SetCells(grid, cells) == grid \cup cells

\* the loop over the primitives of one road; err: float(None) raised
RECURSIVE FillGeometry(_, _, _, _, _, _, _)
FillGeometry(road, k, acc, min_x, min_y, dims, multi) ==
    IF k > Len(road.geoms) \/ acc.err THEN acc
    ELSE IF ~road.geoms[k].has_xy THEN [acc EXCEPT !.err = TRUE]
    ELSE FillGeometry(road, k + 1,
            [acc EXCEPT !.grid =
                SetCells(acc.grid, GeomCells(road, road.geoms[k], min_x, min_y,
                                             dims[1], dims[2], multi))],
            min_x, min_y, dims, multi)

\* the loop over the roads of one document
RECURSIVE FillRoads(_, _, _, _, _, _, _)
FillRoads(roads, r, acc, min_x, min_y, dims, multi) ==
    IF r > Len(roads) \/ acc.err THEN acc
    ELSE FillRoads(roads, r + 1,
                   FillGeometry(roads[r], 1, acc, min_x, min_y, dims, multi),
                   min_x, min_y, dims, multi)

\* a faulty try block, to compare with: what a document wrote is undone
\* when it raises
FillDriveableUndoing(doc, grid, min_x, min_y, dims, multi) ==
    LET f == IF ~doc.ok THEN [grid |-> grid, err |-> TRUE]
             ELSE FillRoads(doc.roads, 1, [grid |-> grid, err |-> FALSE],
                            min_x, min_y, dims, multi)
    IN  IF f.err THEN [grid |-> grid, err |-> TRUE] ELSE f

\* the body of the try block for one document: the grid as it is when the
\* block is left, and whether it was left by an exception
FillDriveable(doc, grid, min_x, min_y, dims, multi) ==
    IF ~doc.ok THEN [grid |-> grid, err |-> TRUE]
    ELSE FillRoads(doc.roads, 1, [grid |-> grid, err |-> FALSE],
                   min_x, min_y, dims, multi)

\* parse_xodr_to_driveable_area: (driveable_area, transform_matrix), or
\* (None, None) when anything raised
parse_xodr_to_driveable_area(doc) ==
    LET b == calculate_map_bounds(doc)
        grid_width == IntDiv(b.max_x - b.min_x, resolution)
        grid_height == IntDiv(b.max_y - b.min_y, resolution)
        f == FillDriveable(doc, {}, b.min_x, b.min_y,
                           <<grid_height, grid_width>>, FALSE)
    IN  IF f.err THEN [none |-> TRUE, rows |-> 0, cols |-> 0, grid |-> {},
                       T |-> <<>>, bounds |-> b]
        ELSE [none |-> FALSE, rows |-> grid_height, cols |-> grid_width,
              grid |-> f.grid,
              T |-> calculate_transform_matrix(b.min_x, b.min_y),
              bounds |-> b]

-----------------------------------------------------------------------------
(* Ground height.  A height grid in the making is a function from the      *)
(* cells written so far to their values.                                   *)

\* the centerline samples of one primitive that fall inside the grid
HeightSamples(g, steps, min_x, min_y, rows, cols) ==
    {c \in {Cell(CenterX(g.x, g, s) - min_x, CenterY(g.y, g, s) - min_y) :
            s \in steps} : InGrid(c, rows, cols)}

\* a faulty write policy, to compare with: a cell keeps the first value
\* written to it
WriteHeightKeeping(h, cells, v) == h @@ [c \in cells |-> v]

\* global_height[row, col] = height_value, for every sample of a primitive
WriteHeight(h, cells, v) == [c \in cells |-> v] @@ h

\* merged script, one primitive: float(x) may raise; without <elevation> the
\* primitive is skipped; float(a) may raise before the sampling loop
HeightGeomMulti(g, acc, min_x, min_y, rows, cols) ==
    IF ~g.has_xy THEN [acc EXCEPT !.err = TRUE]
    ELSE IF ~g.has_elev THEN acc
    ELSE IF ~g.elev_ok THEN [acc EXCEPT !.err = TRUE]
    ELSE [acc EXCEPT !.h =
             WriteHeight(acc.h,
                         HeightSamples(g, StepsMulti(g), min_x, min_y, rows, cols),
                         g.elev)]

\* per-file script, one primitive: float(a) is evaluated inside the loop,
\* at the first sample that falls inside the grid
HeightGeomFile(g, acc, min_x, min_y, rows, cols) ==
    LET cells == HeightSamples(g, StepsFile(g), min_x, min_y, rows, cols)
    IN  IF ~g.has_xy THEN [acc EXCEPT !.err = TRUE]
        ELSE IF ~g.has_elev \/ cells = {} THEN acc
        ELSE IF ~g.elev_ok THEN [acc EXCEPT !.err = TRUE]
        ELSE [acc EXCEPT !.h = WriteHeight(acc.h, cells, g.elev)]

\* the loop over the primitives of one road
RECURSIVE HeightGeometry(_, _, _, _, _, _, _)
HeightGeometry(geoms, k, acc, min_x, min_y, dims, multi) ==
    IF k > Len(geoms) \/ acc.err THEN acc
    ELSE HeightGeometry(geoms, k + 1,
            IF multi
            THEN HeightGeomMulti(geoms[k], acc, min_x, min_y, dims[1], dims[2])
            ELSE HeightGeomFile(geoms[k], acc, min_x, min_y, dims[1], dims[2]),
            min_x, min_y, dims, multi)

\* the loop over the roads of one document
RECURSIVE HeightRoads(_, _, _, _, _, _, _)
HeightRoads(roads, r, acc, min_x, min_y, dims, multi) ==
    IF r > Len(roads) \/ acc.err THEN acc
    ELSE HeightRoads(roads, r + 1,
            HeightGeometry(roads[r].geoms, 1, acc, min_x, min_y, dims, multi),
            min_x, min_y, dims, multi)

\* the body of the try block for one document
FillHeight(doc, h, min_x, min_y, dims, multi) ==
    IF ~doc.ok THEN [h |-> h, err |-> TRUE]
    ELSE HeightRoads(doc.roads, 1, [h |-> h, err |-> FALSE],
                     min_x, min_y, dims, multi)

\* a faulty last step, to compare with: the cells that are nan are left as
\* they are
NanToNumLeaving(h, rows, cols) == h

\* the whole array: np.zeros with the written values (per-file script), or
\* np.nan_to_num(global_height, nan=0.0) of the array seeded with nan
NanToNum(h, rows, cols) ==
    [c \in (0..(rows - 1)) \X (0..(cols - 1)) |->
        IF c \in DOMAIN h THEN h[c] ELSE 0]

NoHeight == [none |-> TRUE, rows |-> 0, cols |-> 0, grid |-> <<>>]

\* xodr_to_ground_height: the array, or None.  Without any geometry the
\* bounds are (inf, -inf, inf, -inf) and int(width / resolution) raises
xodr_to_ground_height(doc) ==
    LET r == HightBounds(doc)
        b == r.b
        grid_width == IntDiv(b.max_x - b.min_x, resolution)
        grid_height == IntDiv(b.max_y - b.min_y, resolution)
        f == FillHeight(doc, <<>>, b.min_x, b.min_y,
                        <<grid_height, grid_width>>, FALSE)
    IN  IF r.none \/ IsUnset(b) THEN NoHeight
        ELSE IF f.err THEN NoHeight
        ELSE [none |-> FALSE, rows |-> grid_height, cols |-> grid_width,
              grid |-> NanToNum(f.h, grid_height, grid_width)]

-----------------------------------------------------------------------------
(* Bounding boxes *)

\* width = 3.5 # assumed lane width; the margin is width / 2
HalfWidth == 175000

\* a faulty row, to compare with: the whole width as the margin
BBoxRowFullWidth(g) == <<g.x - 2 * HalfWidth, g.y - 2 * HalfWidth,
                         XEnd(g) + 2 * HalfWidth, YEnd(g) + 2 * HalfWidth>>

\* [x_min, y_min, x_max, y_max] of one primitive
BBoxRow(g) == <<g.x - HalfWidth, g.y - HalfWidth,
                XEnd(g) + HalfWidth, YEnd(g) + HalfWidth>>

\* the rows of all primitives of one road, appended in order; a missing x
\* or y is read as 0
RECURSIVE BBoxGeometry(_, _, _)
BBoxGeometry(geoms, k, table) ==
    IF k > Len(geoms) THEN table
    ELSE BBoxGeometry(geoms, k + 1, Append(table, BBoxRow(geoms[k])))

RECURSIVE BBoxRoads(_, _, _)
BBoxRoads(roads, r, table) ==
    IF r > Len(roads) THEN table
    ELSE BBoxRoads(roads, r + 1, BBoxGeometry(roads[r].geoms, 1, table))

\* xodr_to_bbox_table: the table, or None when the file cannot be parsed
xodr_to_bbox_table(doc) ==
    IF ~doc.ok THEN [none |-> TRUE, table |-> <<>>]
    ELSE [none |-> FALSE, table |-> BBoxRoads(doc.roads, 1, <<>>)]

-----------------------------------------------------------------------------
(* Vector map *)

\* random.randint(1000000, 9999999)
IdLo == 1000000
IdHi == 9999999
\* the number of values of that range the model's generator draws from
NumIds == 2
\* the lowest values of the range, and its highest
IdDraws == (IdLo..(IdLo + NumIds - 2)) \cup {IdHi}

\* the orders in which the values not yet issued can come out of the
\* generator's loop
Supplies(existing_ids) ==
    LET free == IdDraws \ existing_ids
    IN  {f \in [1..Cardinality(free) -> free] :
            \A i, j \in DOMAIN f : i # j => f[i] # f[j]}

\* generate_unique_lane_id: the loop draws until a value is not in
\* existing_ids, adds it and returns it; the value it ends with is the next
\* of the supply, and without any unissued value it draws forever
generate_unique_lane_id(acc, supply) ==
    IF acc.used >= Len(supply) THEN [acc EXCEPT !.hang = TRUE]
    ELSE [acc EXCEPT !.used = acc.used + 1,
                     !.lane_id = supply[acc.used + 1],
                     !.ids = acc.ids \cup {supply[acc.used + 1]},
                     !.issued = Append(acc.issued, supply[acc.used + 1])]

\* round(v, 4): to a multiple of 0.0001, a tie to the even one
Round4(v) ==
    LET q == v \div 10
        r == v % 10
    IN  IF r < 5 THEN q * 10
        ELSE IF r > 5 THEN (q + 1) * 10
        ELSE IF q % 2 = 0 THEN q * 10 ELSE (q + 1) * 10

\* the text of a rounded float inside f"{x}_{y}": -0.0 and 0.0 differ
FloatText(v) == [v |-> Round4(v), minus |-> v < 0 /\ Round4(v) = 0]

\* node_key = f"{x}_{y}"
NodeKey(g) == <<FloatText(g.x), FloatText(g.y)>>

NodeKeys(nodes) == {nodes[i].key : i \in 1..Len(nodes)}
NodeOf(nodes, key) ==
    nodes[CHOOSE i \in 1..Len(nodes) : nodes[i].key = key]

\* a faulty node step, to compare with: every new node gets the id 0
AddNodeIdZero(nodes, g) ==
    IF NodeKey(g) \in NodeKeys(nodes) THEN nodes
    ELSE Append(nodes, [key |-> NodeKey(g), id |-> 0,
                        x |-> Round4(g.x), y |-> Round4(g.y)])

\* if node_key not in global_nodes: the new node's id is len(global_nodes)
AddNode(nodes, g) ==
    IF NodeKey(g) \in NodeKeys(nodes) THEN nodes
    ELSE Append(nodes, [key |-> NodeKey(g), id |-> Len(nodes),
                        x |-> Round4(g.x), y |-> Round4(g.y)])

\* the merged script's loop over the primitives of one road
RECURSIVE MultiGeometry(_, _, _)
MultiGeometry(geoms, k, acc) ==
    IF k > Len(geoms) \/ acc.err THEN acc
    ELSE IF ~geoms[k].has_xy THEN [acc EXCEPT !.err = TRUE]
    ELSE LET nodes == AddNode(acc.nodes, geoms[k])
         IN  MultiGeometry(geoms, k + 1,
                [acc EXCEPT !.nodes = nodes,
                            !.road_nodes =
                                Append(acc.road_nodes,
                                       NodeOf(nodes, NodeKey(geoms[k])))])

\* lane_hash = hash((tuple((n["x"], n["y"]) ...), type, width)): equal
\* tuples hash alike, and -0.0 equals 0.0
LaneHash(road_nodes, lane) ==
    <<[i \in 1..Len(road_nodes) |-> <<road_nodes[i].x, road_nodes[i].y>>],
      lane.type, lane.wattr>>

WayHashes(ways) == {ways[i].hash : i \in 1..Len(ways)}

\* way_data of the merged script
WayData(lane_id, road_nodes, lane) ==
    [hash |-> LaneHash(road_nodes, lane), lane_id |-> lane_id,
     lane_type |-> lane.type, width |-> lane.wattr,
     geometry |-> [i \in 1..Len(road_nodes) |-> road_nodes[i].id],
     predecessor |-> <<>>, successor |-> <<>>,
     l_neighbor_id |-> "None", r_neighbor_id |-> "None"]

\* a faulty entry, to compare with: the index is counted from 1
MapIndexFromOne(mapping, table_idx, lane_id) ==
    ((table_idx + 1) :> lane_id) @@ mapping

\* global_mapping[str(table_idx_counter)] = new_lane_id
MapIndex(mapping, table_idx, lane_id) == (table_idx :> lane_id) @@ mapping

\* a faulty lane step, to compare with: every lane gets a record, known or
\* not
MultiLaneNoDedup(lane, acc, supply) ==
    LET g == generate_unique_lane_id(acc, supply)
    IN  IF g.hang THEN g
        ELSE [g EXCEPT
                !.mapping = MapIndex(g.mapping, g.counter, g.lane_id),
                !.ways = Append(g.ways, WayData(g.lane_id, g.road_nodes, lane)),
                !.counter = g.counter + 1]

\* a faulty lane step, to compare with: the identifier is drawn before the
\* hash is looked up
MultiLaneDrawFirst(lane, acc, supply) ==
    LET g == generate_unique_lane_id(acc, supply)
    IN  IF g.hang THEN g
        ELSE IF LaneHash(acc.road_nodes, lane) \in WayHashes(acc.ways) THEN g
        ELSE [g EXCEPT
                !.mapping = MapIndex(g.mapping, g.counter, g.lane_id),
                !.ways = Append(g.ways, WayData(g.lane_id, g.road_nodes, lane)),
                !.counter = g.counter + 1]

\* one lane of the merged script: a lane whose hash is known is skipped
MultiLane(lane, acc, supply) ==
    IF LaneHash(acc.road_nodes, lane) \in WayHashes(acc.ways) THEN acc
    ELSE LET g == generate_unique_lane_id(acc, supply)
         IN  IF g.hang THEN g
             ELSE [g EXCEPT
                     !.mapping = MapIndex(g.mapping, g.counter, g.lane_id),
                     !.ways = Append(g.ways,
                                     WayData(g.lane_id, g.road_nodes, lane)),
                     !.counter = g.counter + 1]

RECURSIVE MultiLanes(_, _, _, _)
MultiLanes(lanes, k, acc, supply) ==
    IF k > Len(lanes) \/ acc.hang THEN acc
    ELSE MultiLanes(lanes, k + 1, MultiLane(lanes[k], acc, supply), supply)

\* the merged script's loop over the roads of one document; a road without
\* geometry is skipped
RECURSIVE MultiRoads(_, _, _, _)
MultiRoads(roads, r, acc, supply) ==
    IF r > Len(roads) \/ acc.err \/ acc.hang THEN acc
    ELSE LET g == MultiGeometry(roads[r].geoms, 1,
                                [acc EXCEPT !.road_nodes = <<>>])
         IN  MultiRoads(roads, r + 1,
                IF g.err \/ g.road_nodes = <<>> THEN g
                ELSE MultiLanes(roads[r].lanes, 1, g, supply),
                supply)

\* the body of the merged script's try block for one document
CompileDoc(doc, acc, supply) ==
    IF ~doc.ok THEN [acc EXCEPT !.err = TRUE]
    ELSE MultiRoads(doc.roads, 1, acc, supply)

\* a faulty loop, to compare with: the per-file script merges the nodes of
\* primitives at the same rounded place, as the merged script does
FileGeometryDedup(geoms, k, acc) == MultiGeometry(geoms, k, acc)

\* the per-file script's loop over the primitives of one road: one new node
\* for every primitive
RECURSIVE FileGeometry(_, _, _)
FileGeometry(geoms, k, acc) ==
    IF k > Len(geoms) \/ acc.err THEN acc
    ELSE IF ~geoms[k].has_xy THEN [acc EXCEPT !.err = TRUE]
    ELSE LET node == [key |-> NodeKey(geoms[k]), id |-> Len(acc.nodes),
                      x |-> geoms[k].x, y |-> geoms[k].y]
         IN  FileGeometry(geoms, k + 1,
                [acc EXCEPT !.nodes = Append(acc.nodes, node),
                            !.road_nodes = Append(acc.road_nodes, node)])

\* predecessor_id = predecessor.get("elementId") if predecessor is not None
\* else None, then [predecessor_id] if predecessor_id else []: the text of
\* the attribute, unless it is empty
LinkTag(element) ==
    IF element.has /\ element.elementId # "" THEN <<element.elementId>>
    ELSE <<>>

\* the way of the per-file script
FileWay(lane_id, road_nodes, lane, road) ==
    [lane_id |-> lane_id, lane_type |-> lane.type, width |-> lane.wattr,
     geometry |-> [i \in 1..Len(road_nodes) |-> road_nodes[i].id],
     predecessor |-> LinkTag(road.predecessor),
     successor |-> LinkTag(road.successor),
     l_neighbor_id |-> "None", r_neighbor_id |-> "None"]

\* one lane of the per-file script: always a new identifier and a new way
FileLane(lane, acc, supply, road) ==
    LET g == generate_unique_lane_id(acc, supply)
    IN  IF g.hang THEN g
        ELSE [g EXCEPT
                !.mapping = MapIndex(g.mapping, g.counter, g.lane_id),
                !.ways = Append(g.ways,
                                FileWay(g.lane_id, g.road_nodes, lane, road)),
                !.counter = g.counter + 1]

RECURSIVE FileLanes(_, _, _, _)
FileLanes(road, k, acc, supply) ==
    IF k > Len(road.lanes) \/ acc.hang THEN acc
    ELSE FileLanes(road, k + 1, FileLane(road.lanes[k], acc, supply, road),
                   supply)

RECURSIVE FileRoads(_, _, _, _)
FileRoads(roads, r, acc, supply) ==
    IF r > Len(roads) \/ acc.err \/ acc.hang THEN acc
    ELSE LET g == FileGeometry(roads[r].geoms, 1,
                               [acc EXCEPT !.road_nodes = <<>>])
         IN  FileRoads(roads, r + 1,
                IF g.err THEN g ELSE FileLanes(roads[r], 1, g, supply),
                supply)

\* the state a compilation starts from
GraphStart(existing_ids, issued_so_far) ==
    [nodes |-> <<>>, ways |-> <<>>, mapping |-> <<>>, counter |-> 0,
     ids |-> existing_ids, issued |-> issued_so_far, used |-> 0, lane_id |-> 0,
     road_nodes |-> <<>>, err |-> FALSE, hang |-> FALSE]

\* parse_xodr_to_vector_map: (nodes, ways, mapping), or ([], [], {}) when
\* anything raised; the identifiers issued before that stay issued
parse_xodr_to_vector_map(doc, acc, supply) ==
    LET r == IF ~doc.ok THEN [acc EXCEPT !.err = TRUE]
             ELSE FileRoads(doc.roads, 1, acc, supply)
    IN  IF r.err THEN [r EXCEPT !.nodes = <<>>, !.ways = <<>>, !.mapping = <<>>]
        ELSE r

\* the lanes of a document in traversal order
RECURSIVE AllLanes(_, _)
AllLanes(roads, r) ==
    IF r > Len(roads) THEN <<>> ELSE roads[r].lanes \o AllLanes(roads, r + 1)

\* the loop of xodr_to_json_mapping: "if lane_id:" a lane without id, or
\* with an empty one, gets no table index
RECURSIVE JsonLanes(_, _, _, _)
JsonLanes(lanes, k, mapping, table_idx) ==
    IF k > Len(lanes) THEN mapping
    ELSE IF lanes[k].id # ""
    THEN JsonLanes(lanes, k + 1, MapIndex(mapping, table_idx, lanes[k].id),
                   table_idx + 1)
    ELSE JsonLanes(lanes, k + 1, mapping, table_idx)

\* xodr_to_json_mapping: the mapping it saves; ET.parse is outside every
\* try block
xodr_to_json_mapping(doc) ==
    IF ~doc.ok THEN [raised |-> TRUE, mapping |-> <<>>]
    ELSE [raised |-> FALSE,
          mapping |-> JsonLanes(AllLanes(doc.roads, 1), 1, <<>>, 0)]

-----------------------------------------------------------------------------
(* The programs *)

PerFile == {"area", "hight", "lanid", "bbox", "laneid"}
TwoStage == {"area_multi", "hight_multi"}
Merged == TwoStage \cup {"lanid_multi", "bbox_multi"}
Progs == PerFile \cup Merged

Init ==
    /\ prog \in Progs
    /\ batch \in Batches
    /\ pc = IF prog \in TwoStage THEN "bounds" ELSE "files"
    /\ idx = 1
    /\ ret_bounds = [doc |-> 0, none |-> TRUE, b |-> NoBounds]
    /\ global_bounds = NoBounds
    /\ xodr_paths = <<>>
    /\ grid_rows = 0
    /\ grid_cols = 0
    /\ global_driveable = {}
    /\ global_height = <<>>
    /\ global_nodes = <<>>
    /\ global_ways = <<>>
    /\ global_mapping = <<>>
    /\ existing_lane_ids = {}
    /\ table_idx_counter = 0
    /\ issued = <<>>
    /\ last_draw = 0
    /\ options = [use_obstacle_as_ego |-> FALSE,
                  sequential_filenames |-> FALSE, check_size |-> FALSE]
    /\ counter = 1
    /\ all_bboxes = <<>>
    /\ errors = <<>>
    /\ saved = <<>>

\* the document at a place of the batch
DocAt(i) == Document(batch[i])

\* print_red(f"Error processing {path}: {e}")
Log(failed) == IF failed THEN Append(errors, idx) ELSE errors

\* xodr2npy_area&image2city.py, batch_convert_xodr_to_driveable_area: one
\* document; the artifacts are saved only when they are not None
AreaFile ==
    /\ prog = "area" /\ pc = "files" /\ idx <= Len(batch)
    /\ LET r == parse_xodr_to_driveable_area(DocAt(idx))
       IN  /\ saved' = IF r.none THEN saved
                       ELSE Append(saved, [doc |-> idx, rows |-> r.rows,
                                           cols |-> r.cols, grid |-> r.grid,
                                           T |-> r.T, bounds |-> r.bounds])
           /\ ret_bounds' = [doc |-> idx, none |-> FALSE, b |-> r.bounds]
           /\ errors' = Log(r.none)
    /\ idx' = idx + 1
    /\ UNCHANGED <<inputVars, last_draw, counter, pc, gridVars, graphVars, issued,
                   all_bboxes>>

\* xodr2npy_hight.py, batch_convert_xodr_to_ground_height: one document
HightFile ==
    /\ prog = "hight" /\ pc = "files" /\ idx <= Len(batch)
    /\ LET r == xodr_to_ground_height(DocAt(idx))
       IN  /\ saved' = IF r.none THEN saved
                       ELSE Append(saved, [doc |-> idx, rows |-> r.rows,
                                           cols |-> r.cols, grid |-> r.grid])
           /\ errors' = Log(r.none)
    /\ ret_bounds' = [doc |-> idx, none |-> HightBounds(DocAt(idx)).none,
                      b |-> HightBounds(DocAt(idx)).b]
    /\ idx' = idx + 1
    /\ UNCHANGED <<inputVars, last_draw, counter, pc, gridVars, graphVars, issued,
                   all_bboxes>>

\* xodr2xml&pyn_lanid.py, batch_convert_xodr_to_vector_map_and_json: one
\* document, with existing_lane_ids = set() made for it; the graph and the
\* mapping are saved whatever the parse returned
LanidFile ==
    /\ prog = "lanid" /\ pc = "files" /\ idx <= Len(batch)
    /\ \E supply \in Supplies({}) :
         LET r == parse_xodr_to_vector_map(DocAt(idx), GraphStart({}, issued),
                                           supply)
         IN  /\ issued' = r.issued
             /\ existing_lane_ids' = r.ids
             /\ IF r.hang
                THEN /\ pc' = "hung"
                     /\ UNCHANGED <<idx, saved, errors>>
                ELSE /\ saved' = Append(saved, [doc |-> idx, nodes |-> r.nodes,
                                                ways |-> r.ways,
                                                mapping |-> r.mapping])
                     /\ errors' = Log(r.err)
                     /\ idx' = idx + 1
                     /\ pc' = pc
    /\ UNCHANGED <<inputVars, last_draw, counter, ret_bounds, gridVars, global_nodes, global_ways,
                   global_mapping, table_idx_counter, all_bboxes>>

\* xodr2npy_bbox.py, batch_convert_xodr_to_bbox_table: one document
BBoxFile ==
    /\ prog = "bbox" /\ pc = "files" /\ idx <= Len(batch)
    /\ LET r == xodr_to_bbox_table(DocAt(idx))
       IN  /\ saved' = IF r.none THEN saved
                       ELSE Append(saved, [doc |-> idx, table |-> r.table])
           /\ errors' = Log(r.none)
    /\ idx' = idx + 1
    /\ UNCHANGED <<inputVars, last_draw, counter, pc, ret_bounds, gridVars, graphVars, issued,
                   all_bboxes>>

\* xodr2npy_laneid.py, batch_convert_xodr_to_json: one document; a file that
\* cannot be parsed ends the run
LaneidFile ==
    /\ prog = "laneid" /\ pc = "files" /\ idx <= Len(batch)
    /\ LET r == xodr_to_json_mapping(DocAt(idx))
       IN  IF r.raised
           THEN /\ pc' = "crashed"
                /\ UNCHANGED <<idx, saved>>
           ELSE /\ saved' = Append(saved, [doc |-> idx, mapping |-> r.mapping])
                /\ idx' = idx + 1
                /\ pc' = pc
    /\ UNCHANGED <<inputVars, last_draw, counter, ret_bounds, gridVars, graphVars, issued,
                   all_bboxes, errors>>

\* the end of the os.walk loop of a per-file script
FilesDone ==
    /\ prog \in PerFile /\ pc = "files" /\ idx > Len(batch)
    /\ pc' = "done"
    /\ UNCHANGED <<inputVars, last_draw, counter, idx, ret_bounds, gridVars, graphVars, issued,
                   all_bboxes, errors, saved>>

\* xodr2npy_area&image2city_multi.py, first stage: one document's bounds
AreaMultiBounds ==
    /\ prog = "area_multi" /\ pc = "bounds" /\ idx <= Len(batch)
    /\ xodr_paths' = Append(xodr_paths, idx)
    /\ ret_bounds' = [doc |-> idx, none |-> FALSE,
                      b |-> calculate_map_bounds(DocAt(idx))]
    /\ global_bounds' = MergeBounds(global_bounds, ret_bounds'.b)
    /\ idx' = idx + 1
    /\ UNCHANGED <<inputVars, last_draw, counter, pc, grid_rows, grid_cols, global_driveable,
                   global_height, graphVars, issued, all_bboxes, errors, saved>>

\* grid_cols = int(np.ceil(global_width / resolution)) + 1
GridDim(hi, lo) == CeilDiv(hi - lo, resolution) + 1

\* the grid is allocated; without any document the extent is -inf and
\* int() raises OverflowError outside every try block
AreaMultiAlloc ==
    /\ prog = "area_multi" /\ pc = "bounds" /\ idx > Len(batch)
    /\ IF IsUnset(global_bounds)
       THEN /\ pc' = "crashed"
            /\ UNCHANGED <<grid_rows, grid_cols>>
       ELSE /\ pc' = "fill"
            /\ grid_cols' = GridDim(global_bounds.max_x, global_bounds.min_x)
            /\ grid_rows' = GridDim(global_bounds.max_y, global_bounds.min_y)
    /\ idx' = 1
    /\ UNCHANGED <<inputVars, last_draw, counter, ret_bounds, global_bounds, xodr_paths,
                   global_driveable, global_height, graphVars, issued,
                   all_bboxes, errors, saved>>

\* second stage: one document; an exception is caught and printed, and
\* whatever was written before it stays
AreaMultiFill ==
    /\ prog = "area_multi" /\ pc = "fill" /\ idx <= Len(xodr_paths)
    /\ LET f == FillDriveable(DocAt(xodr_paths[idx]), global_driveable,
                              global_bounds.min_x, global_bounds.min_y,
                              <<grid_rows, grid_cols>>, TRUE)
       IN  /\ global_driveable' = f.grid
           /\ errors' = Log(f.err)
    /\ idx' = idx + 1
    /\ UNCHANGED <<inputVars, last_draw, counter, pc, ret_bounds, global_bounds, xodr_paths,
                   grid_rows, grid_cols, global_height, graphVars, issued,
                   all_bboxes, saved>>

\* global_transform = np.array([[1, 0, -global_min_x], ...])
global_transform(min_x, min_y) ==
    <<<<1, 0, 0 - min_x>>, <<0, 1, 0 - min_y>>, <<0, 0, 1>>>>

\* the merged grid and the global transform are saved
AreaMultiSave ==
    /\ prog = "area_multi" /\ pc = "fill" /\ idx > Len(xodr_paths)
    /\ saved' = <<[doc |-> 0, rows |-> grid_rows, cols |-> grid_cols,
                   grid |-> global_driveable,
                   T |-> global_transform(global_bounds.min_x,
                                          global_bounds.min_y),
                   bounds |-> global_bounds]>>
    /\ pc' = "done"
    /\ UNCHANGED <<inputVars, last_draw, counter, idx, ret_bounds, gridVars, graphVars, issued,
                   all_bboxes, errors>>

\* xodr2npy_hight_multi.py, first stage: one document's bounds; "if bounds:"
\* lets every tuple through and drops None
HightMultiBounds ==
    /\ prog = "hight_multi" /\ pc = "bounds" /\ idx <= Len(batch)
    /\ ret_bounds' = [doc |-> idx, none |-> HightBounds(DocAt(idx)).none,
                      b |-> HightBounds(DocAt(idx)).b]
    /\ IF ret_bounds'.none
       THEN UNCHANGED <<global_bounds, xodr_paths>>
       ELSE /\ global_bounds' = MergeBounds(global_bounds, ret_bounds'.b)
            /\ xodr_paths' = Append(xodr_paths, idx)
    /\ errors' = Log(ret_bounds'.none)
    /\ idx' = idx + 1
    /\ UNCHANGED <<inputVars, last_draw, counter, pc, grid_rows, grid_cols, global_driveable,
                   global_height, graphVars, issued, all_bboxes, saved>>

\* the grid is allocated and seeded with nan; when no document had any
\* geometry the extent is -inf and int() raises OverflowError
HightMultiAlloc ==
    /\ prog = "hight_multi" /\ pc = "bounds" /\ idx > Len(batch)
    /\ IF IsUnset(global_bounds)
       THEN /\ pc' = "crashed"
            /\ UNCHANGED <<grid_rows, grid_cols>>
       ELSE /\ pc' = "fill"
            /\ grid_cols' = GridDim(global_bounds.max_x, global_bounds.min_x)
            /\ grid_rows' = GridDim(global_bounds.max_y, global_bounds.min_y)
    /\ idx' = 1
    /\ UNCHANGED <<inputVars, last_draw, counter, ret_bounds, global_bounds, xodr_paths,
                   global_driveable, global_height, graphVars, issued,
                   all_bboxes, errors, saved>>

\* second stage: one document of xodr_files
HightMultiFill ==
    /\ prog = "hight_multi" /\ pc = "fill" /\ idx <= Len(xodr_paths)
    /\ LET f == FillHeight(DocAt(xodr_paths[idx]), global_height,
                           global_bounds.min_x, global_bounds.min_y,
                           <<grid_rows, grid_cols>>, TRUE)
       IN  /\ global_height' = f.h
           /\ errors' = IF f.err THEN Append(errors, xodr_paths[idx]) ELSE errors
    /\ idx' = idx + 1
    /\ UNCHANGED <<inputVars, last_draw, counter, pc, ret_bounds, global_bounds, xodr_paths,
                   grid_rows, grid_cols, global_driveable, graphVars, issued,
                   all_bboxes, saved>>

\* nan becomes 0 and the merged grid is saved
HightMultiSave ==
    /\ prog = "hight_multi" /\ pc = "fill" /\ idx > Len(xodr_paths)
    /\ saved' = <<[doc |-> 0, rows |-> grid_rows, cols |-> grid_cols,
                   grid |-> NanToNum(global_height, grid_rows, grid_cols)]>>
    /\ pc' = "done"
    /\ UNCHANGED <<inputVars, last_draw, counter, idx, ret_bounds, gridVars, graphVars, issued,
                   all_bboxes, errors>>

\* xodr2xml&pyn_lanid_multi.py, first stage: one document, compiled into
\* the global tables; what an exception leaves behind stays
LanidMultiDoc ==
    /\ prog = "lanid_multi" /\ pc = "files" /\ idx <= Len(batch)
    /\ \E supply \in Supplies(existing_lane_ids) :
         LET start == [GraphStart(existing_lane_ids, issued) EXCEPT
                          !.nodes = global_nodes, !.ways = global_ways,
                          !.mapping = global_mapping,
                          !.counter = table_idx_counter]
             r == CompileDoc(DocAt(idx), start, supply)
         IN  /\ global_nodes' = r.nodes
             /\ global_ways' = r.ways
             /\ global_mapping' = r.mapping
             /\ table_idx_counter' = r.counter
             /\ existing_lane_ids' = r.ids
             /\ issued' = r.issued
             /\ errors' = Log(r.err)
             /\ IF r.hang
                THEN pc' = "hung" /\ idx' = idx
                ELSE pc' = pc /\ idx' = idx + 1
    /\ UNCHANGED <<inputVars, last_draw, counter, ret_bounds, gridVars, all_bboxes, saved>>

\* second stage: "if global_nodes and global_ways:" the graph and the
\* mapping are saved, else a message is printed
LanidMultiSave ==
    /\ prog = "lanid_multi" /\ pc = "files" /\ idx > Len(batch)
    /\ saved' = IF global_nodes # <<>> /\ global_ways # <<>>
                THEN <<[doc |-> 0, nodes |-> global_nodes,
                        ways |-> global_ways, mapping |-> global_mapping]>>
                ELSE <<>>
    /\ pc' = "done"
    /\ UNCHANGED <<inputVars, last_draw, counter, idx, ret_bounds, gridVars, graphVars, issued,
                   all_bboxes, errors>>

\* xodr2npy_bbox_multi.py: one document; its table is kept when it is not
\* None and not empty
BBoxMultiDoc ==
    /\ prog = "bbox_multi" /\ pc = "files" /\ idx <= Len(batch)
    /\ LET r == xodr_to_bbox_table(DocAt(idx))
       IN  /\ all_bboxes' = IF ~r.none /\ Len(r.table) > 0
                            THEN Append(all_bboxes, r.table)
                            ELSE all_bboxes
           /\ errors' = Log(r.none)
    /\ idx' = idx + 1
    /\ UNCHANGED <<inputVars, last_draw, counter, pc, ret_bounds, gridVars, graphVars, issued,
                   saved>>

\* np.vstack(all_bboxes)
RECURSIVE VStack(_, _)
VStack(tables, k) ==
    IF k > Len(tables) THEN <<>> ELSE tables[k] \o VStack(tables, k + 1)

\* the tables are stacked and saved when there is at least one
BBoxMultiSave ==
    /\ prog = "bbox_multi" /\ pc = "files" /\ idx > Len(batch)
    /\ saved' = IF Len(all_bboxes) > 0
                THEN <<[doc |-> 0, table |-> VStack(all_bboxes, 1)]>>
                ELSE <<>>
    /\ pc' = "done"
    /\ UNCHANGED <<inputVars, last_draw, counter, idx, ret_bounds, gridVars, graphVars, issued,
                   all_bboxes, errors>>

Next ==
    \/ AreaFile
    \/ HightFile
    \/ LanidFile
    \/ BBoxFile
    \/ LaneidFile
    \/ FilesDone
    \/ AreaMultiBounds
    \/ AreaMultiAlloc
    \/ AreaMultiFill
    \/ AreaMultiSave
    \/ HightMultiBounds
    \/ HightMultiAlloc
    \/ HightMultiFill
    \/ HightMultiSave
    \/ LanidMultiDoc
    \/ LanidMultiSave
    \/ BBoxMultiDoc
    \/ BBoxMultiSave

Spec == Init /\ [][Next]_vars

-----------------------------------------------------------------------------
(* generate_unique_lane_id draw by draw.  Spec takes a call of the          *)
(* generator in one step; here the loop is followed one draw at a time, for *)
(* a caller that calls it again and again with the same set.                *)

\* the number of values of the range the loop draws from, draw by draw
GenIds == 4
\* the lowest values of the range, and its highest
GenDraws == (IdLo..(IdLo + GenIds - 2)) \cup {IdHi}

\* a faulty test, to compare with: every draw is taken
NotInAlways(v, existing_ids) == TRUE

\* if lane_id not in existing_ids
NotIn(v, existing_ids) == v \notin existing_ids

\* existing_lane_ids = set(), and no call yet
InitGen ==
    /\ prog = "lanid_multi"
    /\ batch = <<>>
    /\ pc = "caller"
    /\ idx = 1
    /\ ret_bounds = [doc |-> 0, none |-> TRUE, b |-> NoBounds]
    /\ global_bounds = NoBounds
    /\ xodr_paths = <<>>
    /\ grid_rows = 0
    /\ grid_cols = 0
    /\ global_driveable = {}
    /\ global_height = <<>>
    /\ global_nodes = <<>>
    /\ global_ways = <<>>
    /\ global_mapping = <<>>
    /\ existing_lane_ids = {}
    /\ table_idx_counter = 0
    /\ issued = <<>>
    /\ last_draw = 0
    /\ options = [use_obstacle_as_ego |-> FALSE,
                  sequential_filenames |-> FALSE, check_size |-> FALSE]
    /\ counter = 1
    /\ all_bboxes = <<>>
    /\ errors = <<>>
    /\ saved = <<>>

\* new_lane_id = generate_unique_lane_id(existing_lane_ids): the call
GenCall ==
    /\ pc = "caller"
    /\ pc' = "while"
    /\ UNCHANGED <<inputVars, last_draw, counter, idx, ret_bounds, gridVars, graphVars,
                   issued, all_bboxes, errors, saved>>

\* one turn of "while True": a draw, the test, and add and return when the
\* value is not in the set
GenDraw(v) ==
    /\ pc = "while"
    /\ last_draw' = v
    /\ IF NotIn(v, existing_lane_ids)
       THEN /\ existing_lane_ids' = existing_lane_ids \cup {v}
            /\ issued' = Append(issued, v)
            /\ pc' = "return"
       ELSE UNCHANGED <<existing_lane_ids, issued, pc>>
    /\ UNCHANGED <<inputVars, counter, idx, ret_bounds, gridVars,
                   global_nodes, global_ways, global_mapping,
                   table_idx_counter, all_bboxes, errors, saved>>

\* return lane_id: the caller has the value
GenReturn ==
    /\ pc = "return"
    /\ pc' = "caller"
    /\ UNCHANGED <<inputVars, last_draw, counter, idx, ret_bounds, gridVars, graphVars,
                   issued, all_bboxes, errors, saved>>

NextGen ==
    \/ GenCall
    \/ \E v \in GenDraws : GenDraw(v)
    \/ GenReturn

\* random.randint draws every value of the range again and again
FairDraws == \A v \in GenDraws : WF_vars(GenDraw(v))

SpecGen == InitGen /\ [][NextGen]_vars /\ FairDraws

-----------------------------------------------------------------------------
(* The merged drivable-area script as a function of the folder's documents *)

\* first stage: the global bounds of all documents
RECURSIVE GlobalBounds(_, _, _)
GlobalBounds(docs, k, g) ==
    IF k > Len(docs) THEN g
    ELSE GlobalBounds(docs, k + 1,
                      MergeBounds(g, calculate_map_bounds(docs[k])))

\* second stage: every document written into the one grid
RECURSIVE FillAll(_, _, _, _, _)
FillAll(docs, k, grid, b, dims) ==
    IF k > Len(docs) THEN grid
    ELSE FillAll(docs, k + 1,
                 FillDriveable(docs[k], grid, b.min_x, b.min_y, dims, TRUE).grid,
                 b, dims)

\* batch_convert_xodr_to_driveable_area of the merged script: what it saves
\* for a folder with at least one document
batch_convert_xodr_to_driveable_area(docs) ==
    LET b == GlobalBounds(docs, 1, NoBounds)
        rows == GridDim(b.max_y, b.min_y)
        cols == GridDim(b.max_x, b.min_x)
    IN  [doc |-> 0, rows |-> rows, cols |-> cols,
         grid |-> FillAll(docs, 1, {}, b, <<rows, cols>>),
         T |-> global_transform(b.min_x, b.min_y), bounds |-> b]

-----------------------------------------------------------------------------
(* Helpers of the properties *)

\* the primitives of a document in traversal order
RECURSIVE AllGeoms(_, _)
AllGeoms(roads, r) ==
    IF r > Len(roads) THEN <<>> ELSE roads[r].geoms \o AllGeoms(roads, r + 1)

\* a document the bounds scan gets through without raising
ScanOk(doc) == doc.ok /\ \A i \in 1..Len(AllGeoms(doc.roads, 1)) :
                            AllGeoms(doc.roads, 1)[i].has_xy

\* a point lies inside the bounds
Inside(b, x, y) == b.min_x <= x /\ x <= b.max_x /\ b.min_y <= y /\ y <= b.max_y

Range(s) == {s[i] : i \in 1..Len(s)}

-----------------------------------------------------------------------------
(* C1 *)

\* C1: whatever calculate_map_bounds returns for a road set (a document all
\* of whose primitives carry x and y, a document without geometry included)
\* has minX <= maxX and minY <= maxY and holds the start point and the
\* straight-line end point of every primitive, in the inflating variant and
\* in the non-inflating variant of the height scripts.
C1_BoundsHoldEndpoints ==
    (ret_bounds.doc # 0 /\ ~ret_bounds.none /\ ScanOk(DocAt(ret_bounds.doc)))
    => /\ ret_bounds.b.min_x <= ret_bounds.b.max_x
       /\ ret_bounds.b.min_y <= ret_bounds.b.max_y
       /\ \A g \in Range(AllGeoms(DocAt(ret_bounds.doc).roads, 1)) :
             /\ Inside(ret_bounds.b, g.x, g.y)
             /\ Inside(ret_bounds.b, XEnd(g), YEnd(g))

-----------------------------------------------------------------------------
(* C2 *)

\* the documents of the folder, in order
BatchDocs == [i \in 1..Len(batch) |-> DocAt(i)]

\* the sequences that hold the elements of s in another order
PermSeq(s) == {[i \in 1..Len(s) |-> s[p[i]]] : p \in Permutations(1..Len(s))}

\* a road with its primitives and its lanes in another order
RoadVariants(road) ==
    {[road EXCEPT !.geoms = g, !.lanes = l] :
        g \in PermSeq(road.geoms), l \in PermSeq(road.lanes)}

\* a document whose roads keep their places, the primitives and the lanes of
\* each road in another order
WithinRoads(doc) ==
    LET n == Len(doc.roads)
        all == UNION {RoadVariants(doc.roads[r]) : r \in 1..n}
    IN  {[doc EXCEPT !.roads = rs] :
            rs \in {f \in [1..n -> all] :
                      \A r \in 1..n : f[r] \in RoadVariants(doc.roads[r])}}

\* a document with its roads, their primitives and their lanes in another
\* order
DocVariants(doc) ==
    UNION {WithinRoads([doc EXCEPT !.roads = rs]) : rs \in PermSeq(doc.roads)}

\* the folder with one document replaced
BatchWith(i, doc) == [BatchDocs EXCEPT ![i] = doc]

\* the merged script is through, and it has saved its grid
AreaMultiDone == prog = "area_multi" /\ pc = "done"

\* writing all documents again into the grid that is already filled
ReplayKeepsGrid ==
    /\ AreaMultiDone =>
          FillAll(BatchDocs, 1, global_driveable, global_bounds,
                  <<grid_rows, grid_cols>>) = global_driveable
    /\ prog = "area" =>
          \A i \in 1..Len(saved) :
             FillDriveable(DocAt(saved[i].doc), saved[i].grid,
                           saved[i].bounds.min_x, saved[i].bounds.min_y,
                           <<saved[i].rows, saved[i].cols>>, FALSE).grid
                = saved[i].grid

\* the documents of the folder in any order give the saved artifact
DocumentOrderFree ==
    AreaMultiDone =>
       \A p \in PermSeq(BatchDocs) :
          batch_convert_xodr_to_driveable_area(p) = saved[1]

\* in a document that is read without error, primitives and lanes in any
\* order within their roads give the saved artifact
WithinRoadOrderFree ==
    /\ AreaMultiDone =>
          \A i \in 1..Len(batch) : ScanOk(DocAt(i)) =>
             \A v \in WithinRoads(DocAt(i)) :
                batch_convert_xodr_to_driveable_area(BatchWith(i, v)) = saved[1]
    /\ prog = "area" =>
          \A i \in 1..Len(saved) :
             \A v \in WithinRoads(DocAt(saved[i].doc)) :
                LET r == parse_xodr_to_driveable_area(v)
                IN  /\ ~r.none
                    /\ r.rows = saved[i].rows /\ r.cols = saved[i].cols
                    /\ r.grid = saved[i].grid /\ r.bounds = saved[i].bounds

\* in a document that is read without error, roads, primitives and lanes in
\* any order set the same cells of a grid of the same bounds
RoadOrderFreeInGrid ==
    /\ AreaMultiDone =>
          \A i \in 1..Len(batch) : ScanOk(DocAt(i)) =>
             \A v \in DocVariants(DocAt(i)) :
                FillAll(BatchWith(i, v), 1, {}, global_bounds,
                        <<grid_rows, grid_cols>>) = global_driveable
    /\ prog = "area" =>
          \A i \in 1..Len(saved) :
             \A v \in DocVariants(DocAt(saved[i].doc)) :
                FillDriveable(v, {}, saved[i].bounds.min_x,
                              saved[i].bounds.min_y,
                              <<saved[i].rows, saved[i].cols>>, FALSE).grid
                   = saved[i].grid

\* the cells that are 1 are cells of the array; all others are 0
CellsInGrid ==
    /\ \A c \in global_driveable : InGrid(c, grid_rows, grid_cols)
    /\ prog = "area" =>
          \A i \in 1..Len(saved) :
             \A c \in saved[i].grid : InGrid(c, saved[i].rows, saved[i].cols)

\* two arrays are the same: the same shape and the same cells set
SameGrid(a, b) == a.rows = b.rows /\ a.cols = b.cols /\ a.grid = b.grid

\* C2 as stated: replaying the documents into the filled occupancy grid
\* changes no cell, and any order of the documents, of the roads, of the
\* primitives and of the lanes gives the same final grid (every cell being 0
\* or 1).  Only documents that are read without error are reordered within.
C2_AnyOrderSameGrid ==
    /\ ReplayKeepsGrid
    /\ CellsInGrid
    /\ AreaMultiDone =>
          \A p \in PermSeq(BatchDocs) : \A i \in 1..Len(p) : ScanOk(p[i]) =>
             \A v \in DocVariants(p[i]) :
                SameGrid(batch_convert_xodr_to_driveable_area(
                             [p EXCEPT ![i] = v]), saved[1])
    /\ prog = "area" =>
          \A i \in 1..Len(saved) :
             \A v \in DocVariants(DocAt(saved[i].doc)) :
                SameGrid(parse_xodr_to_driveable_area(v), saved[i])

\* C2, amended: replaying the documents into the filled occupancy grid
\* changes no cell; any order of the documents gives the same saved grid,
\* and so does, for a document read without error, any order of the
\* primitives and of the lanes within their roads; any order of its roads
\* sets the same cells in a grid of the same bounds; every cell set is a cell
\* of the array, and a cell that is 1 stays 1 for the rest of the batch.
C2_RasterOrder ==
    /\ [](ReplayKeepsGrid /\ DocumentOrderFree /\ WithinRoadOrderFree
          /\ RoadOrderFreeInGrid /\ CellsInGrid)
    /\ [][global_driveable \subseteq global_driveable']_vars

\* two different documents, one of them with two roads, merged into a grid
\* that has cells set
C2_Witness ==
    /\ AreaMultiDone
    /\ Len(batch) = 2 /\ batch[1] # batch[2]
    /\ \E i \in 1..2 : ScanOk(DocAt(i)) /\ Len(DocAt(i).roads) = 2
    /\ global_driveable # {}
    /\ Len(errors) = 0

-----------------------------------------------------------------------------
(* C3 *)

\* the writes of a sequence of primitives in traversal order, up to the
\* first one that raises: the cells each one samples and its elevation
RECURSIVE Writes(_, _, _, _, _, _)
Writes(geoms, k, min_x, min_y, dims, multi) ==
    IF k > Len(geoms) THEN <<>>
    ELSE LET g == geoms[k]
             cells == HeightSamples(g, IF multi THEN StepsMulti(g)
                                       ELSE StepsFile(g),
                                    min_x, min_y, dims[1], dims[2])
             rest == Writes(geoms, k + 1, min_x, min_y, dims, multi)
         IN  IF ~g.has_xy THEN <<>>
             ELSE IF ~g.has_elev THEN rest
             ELSE IF ~g.elev_ok
                  THEN IF multi \/ cells # {} THEN <<>> ELSE rest
             ELSE <<[cells |-> cells, v |-> g.elev]>> \o rest

\* the writes of a document
DocWrites(doc, min_x, min_y, dims, multi) ==
    IF ~doc.ok THEN <<>>
    ELSE Writes(AllGeoms(doc.roads, 1), 1, min_x, min_y, dims, multi)

\* the writes of the documents the merged script has been through
RECURSIVE BatchWrites(_)
BatchWrites(n) ==
    IF n = 0 THEN <<>>
    ELSE BatchWrites(n - 1)
         \o DocWrites(DocAt(xodr_paths[n]), global_bounds.min_x,
                      global_bounds.min_y, <<grid_rows, grid_cols>>, TRUE)

\* the writes that sampled a cell
Writers(w, c) == {k \in 1..Len(w) : c \in w[k].cells}

\* the value the last write to a cell left, 0 for a cell never written
LastValue(w, c) ==
    IF Writers(w, c) = {} THEN 0
    ELSE w[CHOOSE k \in Writers(w, c) : \A l \in Writers(w, c) : l <= k].v

\* a saved array holds in every cell the value of the last write
HoldsLast(a, w) ==
    /\ DOMAIN a.grid = (0..(a.rows - 1)) \X (0..(a.cols - 1))
    /\ \A c \in DOMAIN a.grid : a.grid[c] = LastValue(w, c)

\* the number of documents the second stage of the merged script is through
Filled == IF pc = "done" THEN Len(xodr_paths) ELSE idx - 1

\* C3: in the height pass every cell that received a sample holds the
\* elevation of the last primitive, in document, road and primitive order,
\* that sampled it: while the merged grid is filled, in the merged array that
\* is saved, in the array of the per-file script, and in the array the
\* per-file script makes of the same document with its roads and primitives
\* in any other order (of two primitives A and B on one cell, [A, B] leaves
\* B's value and [B, A] leaves A's).
C3_LastWriteWins ==
    /\ (prog = "hight_multi" /\ pc \in {"fill", "done"}) =>
          /\ DOMAIN global_height
                = {c \in (0..(grid_rows - 1)) \X (0..(grid_cols - 1)) :
                      Writers(BatchWrites(Filled), c) # {}}
          /\ \A c \in DOMAIN global_height :
                global_height[c] = LastValue(BatchWrites(Filled), c)
    /\ (prog = "hight_multi" /\ pc = "done") =>
          HoldsLast(saved[1], BatchWrites(Filled))
    /\ prog = "hight" =>
          \A i \in 1..Len(saved) : \A v \in DocVariants(DocAt(saved[i].doc)) :
             LET b == HightBounds(v).b
                 r == xodr_to_ground_height(v)
             IN  /\ ~r.none
                 /\ HoldsLast(r, DocWrites(v, b.min_x, b.min_y,
                                           <<r.rows, r.cols>>, FALSE))
                 /\ v = DocAt(saved[i].doc) =>
                       r.rows = saved[i].rows /\ r.cols = saved[i].cols
                       /\ r.grid = saved[i].grid

\* a write of the second sequence falls on a cell of a write of the first,
\* with another value
Overwrites(w1, w2) ==
    \E k \in 1..Len(w1), l \in 1..Len(w2) :
       w1[k].v # w2[l].v /\ w1[k].cells \cap w2[l].cells # {}

\* the merged script has saved an array in which a primitive of the second
\* document has overwritten a cell of the first
C3_Witness ==
    /\ prog = "hight_multi" /\ pc = "done" /\ Len(xodr_paths) = 2
    /\ Overwrites(BatchWrites(1),
                  DocWrites(DocAt(xodr_paths[2]), global_bounds.min_x,
                            global_bounds.min_y, <<grid_rows, grid_cols>>, TRUE))
    /\ \E c \in DOMAIN saved[1].grid : saved[1].grid[c] # 0

-----------------------------------------------------------------------------
(* C4 *)

\* the rounded node coordinates of its road, the type and the width of a
\* lane, read from the document
LaneKey(road, lane) ==
    <<[k \in 1..Len(road.geoms) |->
          <<Round4(road.geoms[k].x), Round4(road.geoms[k].y)>>],
      lane.type, lane.wattr>>

\* the same, read from a lane record and the nodes it refers to
WayKey(nodes, way) ==
    <<[k \in 1..Len(way.geometry) |->
          <<nodes[way.geometry[k] + 1].x, nodes[way.geometry[k] + 1].y>>],
      way.lane_type, way.width>>

\* the lane records of a graph for a key
Records(nodes, ways, key) ==
    {k \in 1..Len(ways) : WayKey(nodes, ways[k]) = key}

\* the table indices that map to an identifier
Entries(mapping, lane_id) == {t \in DOMAIN mapping : mapping[t] = lane_id}

\* the documents the merged vector-map script is through
Compiled == IF pc = "done" THEN 1..Len(batch) ELSE 1..(idx - 1)

\* the lanes of the roads with geometry of a document, as keys
DocKeys(doc) ==
    UNION {{LaneKey(doc.roads[r], doc.roads[r].lanes[l]) :
              l \in 1..Len(doc.roads[r].lanes)} :
           r \in {q \in 1..Len(doc.roads) : doc.roads[q].geoms # <<>>}}

\* those of the documents that were compiled without error
CompiledKeys ==
    UNION {DocKeys(DocAt(i)) : i \in {j \in Compiled : ScanOk(DocAt(j))}}

\* C4: in the merged vector-map script, however many compiled documents
\* hold a lane with the same rounded node coordinates of its road, the same
\* type and the same width attribute, the merged graph has exactly one lane
\* record for it, which carries an identifier no other record carries, and
\* the table-index map has exactly one entry for that identifier; the graph
\* and the map are saved as they are.
C4_OneLaneRecord ==
    (prog = "lanid_multi" /\ pc \in {"files", "done"}) =>
       /\ \A key \in CompiledKeys :
             LET recs == Records(global_nodes, global_ways, key)
             IN  /\ Cardinality(recs) = 1
                 /\ \A k \in recs :
                       /\ \A m \in 1..Len(global_ways) :
                             global_ways[m].lane_id = global_ways[k].lane_id
                                => m = k
                       /\ Cardinality(Entries(global_mapping,
                                              global_ways[k].lane_id)) = 1
                       /\ global_ways[k].lane_id \in existing_lane_ids
       /\ (pc = "done" /\ CompiledKeys # {}) =>
             saved = <<[doc |-> 0, nodes |-> global_nodes,
                        ways |-> global_ways, mapping |-> global_mapping]>>

\* two different documents with the same lane were merged into one record
C4_Witness ==
    /\ prog = "lanid_multi" /\ pc = "done" /\ Len(batch) = 2
    /\ batch[1] # batch[2]
    /\ ScanOk(DocAt(1)) /\ ScanOk(DocAt(2))
    /\ DocKeys(DocAt(1)) \cap DocKeys(DocAt(2)) # {}
    /\ Len(global_ways) = 1 /\ Len(saved) = 1

-----------------------------------------------------------------------------
(* C5 *)

\* C5: every identifier generate_unique_lane_id has issued during the run
\* lies in 1000000..9999999, and the identifiers issued during the run are
\* pairwise distinct, in the merged script and in the per-file script (which
\* makes a new set of issued identifiers for every document).
C5_IdsDistinct ==
    /\ \A i \in 1..Len(issued) : IdLo <= issued[i] /\ issued[i] <= IdHi
    /\ \A i, j \in 1..Len(issued) : i # j => issued[i] # issued[j]

-----------------------------------------------------------------------------
(* C6 *)

\* |laneOffset| + |laneWidth| of a lane, a missing <width> counting as 0
LaneMargin(lane) ==
    (IF lane.off >= 0 THEN lane.off ELSE 0 - lane.off)
    + (IF ~lane.has_width THEN 0
       ELSE IF lane.a >= 0 THEN lane.a ELSE 0 - lane.a)

\* the margins of the lanes of the roads from road r on, added up
RECURSIVE LaneSum(_, _)
LaneSum(lanes, k) ==
    IF k > Len(lanes) THEN 0 ELSE LaneMargin(lanes[k]) + LaneSum(lanes, k + 1)

RECURSIVE MarginFrom(_, _)
MarginFrom(roads, r) ==
    IF r > Len(roads) THEN 0
    ELSE LaneSum(roads[r].lanes, 1) + MarginFrom(roads, r + 1)

\* the places of the primitives of a document: road and primitive
Places(doc) ==
    UNION {{<<r, k>> : k \in 1..Len(doc.roads[r].geoms)} :
           r \in 1..Len(doc.roads)}

Least(S) == CHOOSE m \in S : \A n \in S : m <= n
Greatest(S) == CHOOSE m \in S : \A n \in S : m >= n

\* the bounds of a document: every primitive's start and end point, widened
\* by the margin of every lane of its own road and of the roads after it
WidenedBounds(doc) ==
    LET g(p) == doc.roads[p[1]].geoms[p[2]]
        w(p) == MarginFrom(doc.roads, p[1])
    IN  Bounds(Least({Min2(g(p).x, XEnd(g(p))) - w(p) : p \in Places(doc)}),
               Greatest({Max2(g(p).x, XEnd(g(p))) + w(p) : p \in Places(doc)}),
               Least({Min2(g(p).y, YEnd(g(p))) - w(p) : p \in Places(doc)}),
               Greatest({Max2(g(p).y, YEnd(g(p))) + w(p) : p \in Places(doc)}))

\* the drivable-area scripts have the bounds of a document with geometry
\* that is read without error
AreaBoundsOf(doc) ==
    /\ prog \in {"area", "area_multi"} /\ ret_bounds.doc # 0
    /\ doc = DocAt(ret_bounds.doc)
    /\ ScanOk(doc) /\ Places(doc) # {}

\* 3.5 m, 13.5 m: the numbers of the end-to-end scenario
ScenarioBounds ==
    Bounds(0 - 35 * (Metre \div 10), 135 * (Metre \div 10),
           0 - 35 * (Metre \div 10), 35 * (Metre \div 10))

\* C6: calculate_map_bounds of the drivable-area scripts widens all four
\* bounds by |laneOffset| + |laneWidth| once for every lane, so that every
\* point within a lane's width of the start or end point of a primitive of
\* the lane's road lies inside the returned bounds; for one road of length
\* 10 m at heading 0 from the origin with one driving lane of width 3.5 m the
\* bounds are exactly (-3.5, 13.5, -3.5, 3.5).
C6_LaneMargins ==
    \A doc \in {Document(n) : n \in DocSet} : AreaBoundsOf(doc) =>
       /\ ret_bounds.b = WidenedBounds(doc)
       /\ Len(doc.roads) = 1 =>
             LET raw == ScanBounds(doc, FALSE).b
                 w == LaneSum(doc.roads[1].lanes, 1)
             IN  ret_bounds.b = Bounds(raw.min_x - w, raw.max_x + w,
                                       raw.min_y - w, raw.max_y + w)
       /\ \A r \in 1..Len(doc.roads) :
             \A k \in 1..Len(doc.roads[r].geoms) :
                \A l \in 1..Len(doc.roads[r].lanes) :
                   LET g == doc.roads[r].geoms[k]
                       w == LaneMargin(doc.roads[r].lanes[l])
                   IN  \A dx, dy \in {0 - w, 0, w} :
                          /\ Inside(ret_bounds.b, g.x + dx, g.y + dy)
                          /\ Inside(ret_bounds.b, XEnd(g) + dx, YEnd(g) + dy)
       /\ doc = DocScenario => ret_bounds.b = ScenarioBounds

\* the bounds of the scenario document were computed, and they are wider
\* than the road
C6_Witness ==
    /\ AreaBoundsOf(DocScenario)
    /\ ret_bounds.b.min_x < 0
    /\ ret_bounds.b.max_x > XEnd(DocScenario.roads[1].geoms[1])

-----------------------------------------------------------------------------
(* C7 *)

\* 1.75 m
NominalMargin == 175 * (Metre \div 100)

\* one row for every primitive of a document, in traversal order
ExpectedTable(doc) ==
    [k \in 1..Len(AllGeoms(doc.roads, 1)) |->
        LET g == AllGeoms(doc.roads, 1)[k]
        IN  <<g.x - NominalMargin, g.y - NominalMargin,
              g.x + g.length * Cos(g.hdg) + NominalMargin,
              g.y + g.length * Sin(g.hdg) + NominalMargin>>]

\* the tables of the readable documents of the folder, one after the other
RECURSIVE ExpectedMerged(_)
ExpectedMerged(n) ==
    IF n = 0 THEN <<>>
    ELSE ExpectedMerged(n - 1)
         \o (IF DocAt(n).ok THEN ExpectedTable(DocAt(n)) ELSE <<>>)

\* a document with the lanes of its roads taken away
WithoutLanes(doc) ==
    [doc EXCEPT !.roads = [r \in 1..Len(doc.roads) |->
                              [doc.roads[r] EXCEPT !.lanes = <<>>]]]

\* [-1.75, -1.75, 11.75, 1.75]
ScenarioRow == <<0 - NominalMargin, 0 - NominalMargin,
                 10 * Metre + NominalMargin, NominalMargin>>

\* C7: the bounding-box table has one row for every primitive, in traversal
\* order, nothing merged or dropped, and the row is (x_start - 1.75,
\* y_start - 1.75, x_end + 1.75, y_end + 1.75) whatever the lanes of the road
\* are; the table of the scenario document is the one row [-1.75, -1.75,
\* 11.75, 1.75]; the table the merged script saves is the tables of the
\* documents one after the other, in traversal order.
C7_OneRowPerPrimitive ==
    /\ prog = "bbox" =>
          \A i \in 1..Len(saved) :
             LET doc == DocAt(saved[i].doc)
             IN  /\ saved[i].table = ExpectedTable(doc)
                 /\ xodr_to_bbox_table(WithoutLanes(doc)).table = saved[i].table
                 /\ doc = DocScenario => saved[i].table = <<ScenarioRow>>
    /\ (prog = "bbox_multi" /\ pc = "files") =>
          VStack(all_bboxes, 1) = ExpectedMerged(idx - 1)
    /\ (prog = "bbox_multi" /\ pc = "done") =>
          saved = IF ExpectedMerged(Len(batch)) = <<>> THEN <<>>
                  ELSE <<[doc |-> 0, table |-> ExpectedMerged(Len(batch))]>>

\* the merged script has saved the rows of two different documents, one of
\* them the scenario, one with more than one primitive
C7_Witness ==
    /\ prog = "bbox_multi" /\ pc = "done" /\ Len(batch) = 2
    /\ batch[1] # batch[2]
    /\ Len(saved) = 1 /\ Len(saved[1].table) >= 3
    /\ \E k \in 1..Len(saved[1].table) : saved[1].table[k] = ScenarioRow

-----------------------------------------------------------------------------
(* C8 *)

\* an array of the minimal size that is 0 everywhere
ZeroGrid2x2 == [c \in (0..1) \X (0..1) |-> 0]

\* the artifacts a per-file script has saved for a document
SavedFor(i) == {saved[k] : k \in {j \in 1..Len(saved) : saved[j].doc = i}}

\* C8: for a document with zero roads the bounds are (0, 1, 0, 1), the
\* occupancy array and the height array are 2x2 and all zero, the vector
\* graph that is emitted has no nodes and no ways, and no error is raised: no
\* error is printed for the document, and no script stops on it.
C8_EmptyDocument ==
    /\ (\E i \in 1..Len(batch) : batch[i] = "empty") => pc # "crashed"
    /\ \A i \in 1..Len(batch) : batch[i] = "empty" =>
          /\ \A k \in 1..Len(errors) : errors[k] # i
          /\ ret_bounds.doc = i =>
                ~ret_bounds.none /\ ret_bounds.b = DefaultBounds
          /\ (prog = "area" /\ i < idx) =>
                \E s \in SavedFor(i) :
                   s.rows = 2 /\ s.cols = 2 /\ s.grid = {}
                   /\ s.bounds = DefaultBounds
          /\ (prog = "hight" /\ i < idx) =>
                \E s \in SavedFor(i) :
                   s.rows = 2 /\ s.cols = 2 /\ s.grid = ZeroGrid2x2
          /\ (prog = "lanid" /\ i < idx) =>
                \E s \in SavedFor(i) : s.nodes = <<>> /\ s.ways = <<>>

-----------------------------------------------------------------------------
(* C9 *)

\* the translation by (-min_x, -min_y)
Translation(b) == <<<<1, 0, 0 - b.min_x>>, <<0, 1, 0 - b.min_y>>, <<0, 0, 1>>>>

\* a saved transform takes the start and the end point of every primitive
\* of a document to coordinates that are not negative
TakesInside(T, doc) ==
    \A k \in 1..Len(AllGeoms(doc.roads, 1)) :
       LET g == AllGeoms(doc.roads, 1)[k]
       IN  /\ Apply(T, g.x, g.y)[1] >= 0 /\ Apply(T, g.x, g.y)[2] >= 0
           /\ Apply(T, XEnd(g), YEnd(g))[1] >= 0
           /\ Apply(T, XEnd(g), YEnd(g))[2] >= 0

\* C9: the saved transform matrix is the translation [[1, 0, -minX],
\* [0, 1, -minY], [0, 0, 1]]; it takes (minX, minY) to (0, 0), and it takes
\* the start and the end point of every primitive that was folded into the
\* bounds, of every document of the folder that is read without error in the
\* merged script, to coordinates that are not negative.
C9_Translation ==
    /\ prog = "area" =>
          \A i \in 1..Len(saved) :
             /\ saved[i].T = Translation(saved[i].bounds)
             /\ Apply(saved[i].T, saved[i].bounds.min_x, saved[i].bounds.min_y)
                   = <<0, 0>>
             /\ TakesInside(saved[i].T, DocAt(saved[i].doc))
    /\ (prog = "area_multi" /\ pc = "done") =>
          /\ saved[1].T = Translation(global_bounds)
          /\ saved[1].bounds = global_bounds
          /\ Apply(saved[1].T, global_bounds.min_x, global_bounds.min_y)
                = <<0, 0>>
          /\ \A i \in 1..Len(batch) :
                ScanOk(DocAt(i)) => TakesInside(saved[1].T, DocAt(i))

\* the merged script has saved the transform of two different documents
\* with geometry, and it moves the origin
C9_Witness ==
    /\ prog = "area_multi" /\ pc = "done" /\ Len(batch) = 2
    /\ batch[1] # batch[2]
    /\ \A i \in 1..2 : ScanOk(DocAt(i)) /\ Places(DocAt(i)) # {}
    /\ saved[1].T[1][3] > 0 /\ saved[1].T[2][3] > 0
    /\ Apply(saved[1].T, 0, 0) # <<0, 0>>

-----------------------------------------------------------------------------
(* C10 *)

\* the places of the primitives of a document in traversal order
RECURSIVE PlaceSeq(_, _)
PlaceSeq(doc, r) ==
    IF r > Len(doc.roads) THEN <<>>
    ELSE [k \in 1..Len(doc.roads[r].geoms) |-> <<r, k>>] \o PlaceSeq(doc, r + 1)

GeomAt(doc, p) == doc.roads[p[1]].geoms[p[2]]

\* the first place whose primitive has no x or y, one past the end without
\* such a primitive
FirstBad(doc) ==
    LET s == PlaceSeq(doc, 1)
        bad == {j \in 1..Len(s) : ~GeomAt(doc, s[j]).has_xy}
    IN  IF bad = {} THEN Len(s) + 1 ELSE Least(bad)

\* the places gone through before a document raises
Before(doc) ==
    IF ~doc.ok THEN {}
    ELSE {PlaceSeq(doc, 1)[j] : j \in 1..(FirstBad(doc) - 1)}

\* the roads whose lanes are gone through before a document raises
RoadsBefore(doc) ==
    IF ~doc.ok THEN {}
    ELSE IF FirstBad(doc) > Len(PlaceSeq(doc, 1)) THEN 1..Len(doc.roads)
    ELSE 1..(PlaceSeq(doc, 1)[FirstBad(doc)][1] - 1)

\* the cells a document sets in the merged grid before it raises
PartialCells(doc) ==
    UNION {GeomCells(doc.roads[p[1]], GeomAt(doc, p), global_bounds.min_x,
                     global_bounds.min_y, grid_rows, grid_cols, TRUE) :
           p \in Before(doc)}

\* the cells a document writes in the merged height grid before it raises
PartialHeights(doc) ==
    LET w == DocWrites(doc, global_bounds.min_x, global_bounds.min_y,
                       <<grid_rows, grid_cols>>, TRUE)
    IN  UNION {w[k].cells : k \in 1..Len(w)}

\* the rounded coordinates of the nodes a document adds before it raises
PartialNodes(doc) ==
    {<<Round4(GeomAt(doc, p).x), Round4(GeomAt(doc, p).y)>> : p \in Before(doc)}

\* the lanes a document adds before it raises, as keys
PartialKeys(doc) ==
    UNION {{LaneKey(doc.roads[r], doc.roads[r].lanes[l]) :
              l \in 1..Len(doc.roads[r].lanes)} :
           r \in {q \in RoadsBefore(doc) : doc.roads[q].geoms # <<>>}}

\* the coordinates of the nodes of a graph
Coordinates(nodes) == {<<nodes[k].x, nodes[k].y>> : k \in 1..Len(nodes)}

\* a graph and a table-index map hold what a document added before it raised
GraphHolds(nodes, ways, mapping, doc) ==
    /\ PartialNodes(doc) \subseteq Coordinates(nodes)
    /\ \A key \in PartialKeys(doc) :
          \E k \in Records(nodes, ways, key) :
             /\ ways[k].lane_id \in Range(issued)
             /\ Entries(mapping, ways[k].lane_id) # {}

\* s is the beginning of t
IsPrefix(s, t) == Len(s) <= Len(t) /\ \A k \in 1..Len(s) : s[k] = t[k]

\* the documents of the batch that have raised in the loop that writes
Failed == {errors[k] : k \in 1..Len(errors)}

\* what the documents gone through have written before raising, or without
\* raising, is in the global grid, the global graph and the global tables
WritesKept ==
    /\ (prog = "area_multi" /\ pc \in {"fill", "done"}) =>
          \A i \in 1..Filled :
             PartialCells(DocAt(xodr_paths[i])) \subseteq global_driveable
    /\ (prog = "hight_multi" /\ pc \in {"fill", "done"}) =>
          \A i \in 1..Filled :
             PartialHeights(DocAt(xodr_paths[i])) \subseteq DOMAIN global_height
    /\ (prog = "lanid_multi" /\ pc \in {"files", "done"}) =>
          /\ \A i \in Compiled :
                GraphHolds(global_nodes, global_ways, global_mapping, DocAt(i))
          /\ Range(issued) = existing_lane_ids
          /\ table_idx_counter = Len(global_ways)
          /\ DOMAIN global_mapping = 0..(table_idx_counter - 1)

\* the artifacts hold the global state; the merged vector-map script writes
\* its artifacts only with at least one node and at least one lane record
ArtifactsHoldState ==
    /\ (prog = "area_multi" /\ pc = "done") =>
          Len(saved) = 1 /\ saved[1].grid = global_driveable
    /\ (prog = "hight_multi" /\ pc = "done") =>
          /\ Len(saved) = 1
          /\ \A c \in DOMAIN global_height :
                saved[1].grid[c] = global_height[c]
    /\ (prog = "lanid_multi" /\ pc = "done") =>
          saved = IF global_nodes # <<>> /\ global_ways # <<>>
                  THEN <<[doc |-> 0, nodes |-> global_nodes,
                          ways |-> global_ways, mapping |-> global_mapping]>>
                  ELSE <<>>

\* a script that is through has been through every document
AllGoneThrough ==
    pc = "done" =>
       /\ prog \in TwoStage => idx = Len(xodr_paths) + 1
       /\ prog = "area_multi" => Len(xodr_paths) = Len(batch)
       /\ prog \notin TwoStage => idx = Len(batch) + 1
       /\ Failed \subseteq 1..Len(batch)

\* a step in which a document raises leaves the loop where it is and goes
\* on to the next document
FailureGoesOn ==
    errors' # errors =>
       /\ pc' = pc /\ idx' = idx + 1
       /\ \E i \in 1..Len(batch) : errors' = Append(errors, i)

\* no step of a merged script takes anything out of the global state
NothingUndone ==
    prog \in Merged =>
       /\ global_driveable \subseteq global_driveable'
       /\ DOMAIN global_height \subseteq DOMAIN global_height'
       /\ IsPrefix(global_nodes, global_nodes')
       /\ IsPrefix(global_ways, global_ways')
       /\ IsPrefix(issued, issued')
       /\ existing_lane_ids \subseteq existing_lane_ids'
       /\ table_idx_counter <= table_idx_counter'
       /\ \A t \in DOMAIN global_mapping :
             t \in DOMAIN global_mapping' /\ global_mapping'[t] = global_mapping[t]

-----------------------------------------------------------------------------
(* C11 *)

\* the documents of the folder, with a file that cannot be read in the place
\* of every document that has raised
WithoutFailed ==
    [i \in 1..Len(batch) |-> IF i \in Failed THEN DocUnreadable ELSE DocAt(i)]

\* the documents that have not raised, among those of the second stage
Sound == Range(xodr_paths) \ Failed

\* the coordinates of the nodes a document adds
NodesOf(doc) ==
    {<<Round4(g.x), Round4(g.y)>> : g \in Range(AllGeoms(doc.roads, 1))}

\* C11: a document that raises while it is processed contributes nothing to
\* any artifact.  Per-file scripts: no artifact of the document holds a
\* cell, a node, a lane record, a table-index entry or a bbox row.  Merged
\* scripts: the saved occupancy grid is the grid of the other documents
\* alone, every written height cell is written by another document, and
\* every node of the saved graph is a node of another document.
C11_FailedContributesNothing ==
    pc = "done" =>
       /\ prog = "area" =>
             \A i \in Failed : SavedFor(i) = {}
       /\ prog = "hight" =>
             \A i \in Failed : SavedFor(i) = {}
       /\ prog = "bbox" =>
             \A i \in Failed : SavedFor(i) = {}
       /\ prog = "lanid" =>
             \A i \in Failed : \A a \in SavedFor(i) :
                a.nodes = <<>> /\ a.ways = <<>> /\ a.mapping = <<>>
       /\ (prog = "area_multi" /\ Len(saved) = 1) =>
             saved[1].grid = FillAll(WithoutFailed, 1, {}, global_bounds,
                                     <<grid_rows, grid_cols>>)
       /\ (prog = "hight_multi" /\ Len(saved) = 1) =>
             \A c \in DOMAIN saved[1].grid :
                saved[1].grid[c] # 0 =>
                   \E i \in Sound : c \in PartialHeights(DocAt(i))
       /\ (prog = "lanid_multi" /\ Len(saved) = 1) =>
             Coordinates(saved[1].nodes)
                \subseteq UNION {NodesOf(DocAt(i)) :
                                   i \in (1..Len(batch)) \ Failed}
       /\ (prog = "bbox_multi" /\ Len(saved) = 1) =>
             saved[1].table = ExpectedMerged(Len(batch))

-----------------------------------------------------------------------------
(* C12 *)

\* the folder without the files that cannot be read
Readable == SelectSeq(BatchDocs, LAMBDA d : d.ok)

\* the first stage of the merged height script over a list of documents
RECURSIVE HightGlobal(_, _, _)
HightGlobal(docs, k, g) ==
    IF k > Len(docs) THEN g
    ELSE HightGlobal(docs, k + 1,
                     IF HightBounds(docs[k]).none THEN g
                     ELSE MergeBounds(g, HightBounds(docs[k]).b))

\* the merged vector-map script over a list of documents
RECURSIVE CompileAll(_, _, _, _)
CompileAll(docs, k, acc, supply) ==
    IF k > Len(docs) \/ acc.hang THEN acc
    ELSE CompileAll(docs, k + 1,
                    [CompileDoc(docs[k], acc, supply) EXCEPT !.err = FALSE],
                    supply)

\* a lane record without its identifier
Unnamed(way) == [way EXCEPT !.lane_id = 0]

\* C12: in the merged scripts a document that cannot be read is skipped
\* entirely: the global bounds, the grid dimensions, the transform matrix,
\* the grid contents, the bbox table and the lane graph (up to the random
\* identifiers) are those of the folder without that document.
C12_UnreadableSkipped ==
    (pc = "done" /\ Readable # <<>>) =>
       /\ prog = "area_multi" =>
             /\ Len(saved) = 1
             /\ saved[1] = batch_convert_xodr_to_driveable_area(Readable)
       /\ prog = "hight_multi" =>
             /\ global_bounds = HightGlobal(Readable, 1, NoBounds)
             /\ \A i \in Range(xodr_paths) : DocAt(i).ok
             /\ grid_cols = GridDim(global_bounds.max_x, global_bounds.min_x)
             /\ grid_rows = GridDim(global_bounds.max_y, global_bounds.min_y)
       /\ prog = "lanid_multi" =>
             LET supply == CHOOSE s \in Supplies({}) : TRUE
                 r == CompileAll(Readable, 1, GraphStart({}, <<>>), supply)
             IN  /\ global_nodes = r.nodes
                 /\ Len(global_ways) = Len(r.ways)
                 /\ \A k \in 1..Len(global_ways) :
                       Unnamed(global_ways[k]) = Unnamed(r.ways[k])
                 /\ DOMAIN global_mapping = DOMAIN r.mapping
       /\ prog = "bbox_multi" =>
             all_bboxes
                = SelectSeq([i \in 1..Len(Readable) |->
                                xodr_to_bbox_table(Readable[i]).table],
                            LAMBDA t : t # <<>>)

-----------------------------------------------------------------------------
(* C13 *)

\* a document that is read and has no primitive at all
NoGeometry(doc) == doc.ok /\ AllGeoms(doc.roads, 1) = <<>>

\* a document that is read without error and has primitives
RealGeometry(doc) == ScanOk(doc) /\ AllGeoms(doc.roads, 1) # <<>>

\* C13: what calculate_map_bounds of the drivable-area scripts returns for
\* a document without geometry differs from what it returns for every
\* document with real geometry, one whose geometry spans exactly (0, 1, 0, 1)
\* included: neither the returned bounds nor the saved artifacts of two such
\* documents of one folder are the same.
C13_FallbackDistinct ==
    /\ (prog \in {"area", "area_multi"} /\ ret_bounds.doc # 0
        /\ NoGeometry(DocAt(ret_bounds.doc))) =>
          \A i \in 1..Len(batch) :
             RealGeometry(DocAt(i)) =>
                calculate_map_bounds(DocAt(i)) # ret_bounds.b
    /\ prog = "area" =>
          \A i, j \in 1..Len(saved) :
             (NoGeometry(DocAt(saved[i].doc))
              /\ RealGeometry(DocAt(saved[j].doc))) =>
                saved[i].bounds # saved[j].bounds

-----------------------------------------------------------------------------
(* C14 *)

\* the cells of an array
CellsOf(rows, cols) == (0..(rows - 1)) \X (0..(cols - 1))

\* the elevations the writes of a sequence left on a cell
Written(w, c) == {w[k].v : k \in Writers(w, c)}

-----------------------------------------------------------------------------
(* C15 *)

\* the identifiers of the recorded lanes
IdsOf(ways) == {ways[k].lane_id : k \in 1..Len(ways)}

\* a table-index map has the keys 0..n-1 for n lane records, and key i maps
\* to the identifier of the lane record at place i in discovery order
DenseOver(mapping, ways) ==
    /\ DOMAIN mapping = 0..(Len(ways) - 1)
    /\ \A t \in DOMAIN mapping : mapping[t] = ways[t + 1].lane_id

\* the id attributes of the lanes of a document that have one, in order
LaneIds(doc) ==
    LET lanes == AllLanes(doc.roads, 1)
        ids == [k \in 1..Len(lanes) |-> lanes[k].id]
    IN  SelectSeq(ids, LAMBDA t : t # "")

\* the table-index maps of the three scripts that write one are dense and
\* in discovery order; in the merged script a lane that is already recorded
\* consumes no index
TableIndexDense ==
    /\ prog = "lanid_multi" =>
          /\ DenseOver(global_mapping, global_ways)
          /\ table_idx_counter = Len(global_ways)
          /\ Cardinality(WayHashes(global_ways)) = Len(global_ways)
          /\ existing_lane_ids = IdsOf(global_ways)
          /\ \A k \in 1..Len(saved) :
                DenseOver(saved[k].mapping, saved[k].ways)
    /\ prog = "lanid" =>
          \A k \in 1..Len(saved) : DenseOver(saved[k].mapping, saved[k].ways)
    /\ prog = "laneid" =>
          \A k \in 1..Len(saved) :
             LET ids == LaneIds(DocAt(saved[k].doc))
             IN  /\ DOMAIN saved[k].mapping = 0..(Len(ids) - 1)
                 /\ \A t \in DOMAIN saved[k].mapping :
                       saved[k].mapping[t] = ids[t + 1]

\* the per-file vector-map script has just been through a document
JustParsed == prog = "lanid" /\ pc = "files" /\ Len(saved) > 0

\* C15 as stated: after any sequence of documents the table-index map has
\* exactly the keys 0..n-1 for n lane records, key i maps to the identifier
\* of the i-th lane record, a duplicate lane consumes no index, and the set
\* of issued identifiers is the set of identifiers of the recorded lanes.
C15_IssuedAreRecorded ==
    /\ TableIndexDense
    /\ JustParsed => existing_lane_ids = IdsOf(saved[Len(saved)].ways)

\* C15, amended: as stated, except that in the per-file script the issued
\* identifiers are those of the recorded lanes only for a document that did
\* not raise; for one that raised the emitted map and lane list are empty
\* and the identifiers issued before the failure stay in the issued set.
C15_DenseTableIndex ==
    /\ TableIndexDense
    /\ JustParsed =>
          LET a == saved[Len(saved)]
          IN  IF a.doc \in Failed
              THEN a.ways = <<>> /\ a.mapping = <<>>
              ELSE existing_lane_ids = IdsOf(a.ways)

\* the merged script is through two documents with a lane in common: two
\* lane records, two table indices
C15_Witness ==
    /\ prog = "lanid_multi" /\ pc = "done" /\ Len(batch) = 2
    /\ DocKeys(DocAt(1)) \cap DocKeys(DocAt(2)) # {}
    /\ Len(saved) = 1
    /\ DOMAIN saved[1].mapping = {0, 1}
    /\ table_idx_counter = 2

-----------------------------------------------------------------------------
(* C16 *)

\* the elementId of a link element the road declares, nothing otherwise
Declared(element) ==
    IF element.has THEN <<element.elementId>> ELSE <<>>

\* for every lane of a document, in traversal order, the road that owns it
RECURSIVE LaneOwners(_, _)
LaneOwners(roads, r) ==
    IF r > Len(roads) THEN <<>>
    ELSE [l \in 1..Len(roads[r].lanes) |-> roads[r]]
         \o LaneOwners(roads, r + 1)

\* a lane record carries the links of a road
CarriesLinks(way, road) ==
    /\ way.predecessor = Declared(road.predecessor)
    /\ way.successor = Declared(road.successor)

\* the roads with geometry of the documents that have a lane with a key
Owners(key) ==
    UNION {{DocAt(i).roads[r] :
              r \in {q \in 1..Len(DocAt(i).roads) :
                       /\ DocAt(i).roads[q].geoms # <<>>
                       /\ \E l \in 1..Len(DocAt(i).roads[q].lanes) :
                             LaneKey(DocAt(i).roads[q],
                                     DocAt(i).roads[q].lanes[l]) = key}} :
           i \in {j \in 1..Len(batch) : DocAt(j).ok}}

\* C16: every lane record of the emitted graph has as predecessor list the
\* elementId of the link predecessor its road declares (elementId 0
\* included) and the empty list otherwise, likewise for the successor, so
\* that all lanes of a road carry the same links; in the per-file script
\* and in the merged script.
C16_LinksCarried ==
    /\ prog = "lanid" =>
          \A k \in 1..Len(saved) :
             LET owners == LaneOwners(DocAt(saved[k].doc).roads, 1)
             IN  saved[k].doc \notin Failed =>
                    /\ Len(saved[k].ways) = Len(owners)
                    /\ \A w \in 1..Len(owners) :
                          CarriesLinks(saved[k].ways[w], owners[w])
    /\ prog = "lanid_multi" =>
          \A k \in 1..Len(saved) : \A w \in 1..Len(saved[k].ways) :
             \E road \in Owners(WayKey(saved[k].nodes, saved[k].ways[w])) :
                CarriesLinks(saved[k].ways[w], road)

-----------------------------------------------------------------------------
(* C17 *)

\* the translated sample points of one lane at every step of one primitive
LanePoints(g, w, steps, min_x, min_y) ==
    {<<CenterX(g.x - min_x, g, s) + o * Sin(g.hdg),
       CenterY(g.y - min_y, g, s) - o * Cos(g.hdg)>> :
        s \in steps, o \in Offsets(w)}

\* the translated sample points of one primitive, over the lanes of its
\* road that the script samples
SampledPoints(road, g, min_x, min_y, multi) ==
    UNION {LET lane == road.lanes[k]
           IN  IF multi
               THEN IF lane.type # "driving" \/ ~lane.has_width THEN {}
                    ELSE LanePoints(g, lane.a, StepsMulti(g), min_x, min_y)
               ELSE IF ~lane.has_width \/ lane.a = 0 \/ lane.type # "driving"
                    THEN {}
                    ELSE LanePoints(g, lane.a, StepsFile(g), min_x, min_y) :
           k \in 1..Len(road.lanes)}

\* (row, col) = (floor(y' / resolution), floor(x' / resolution))
FloorCell(p) == <<p[2] \div resolution, p[1] \div resolution>>

\* the floored cells of a set of points that lie inside the grid
Floored(points, rows, cols) ==
    {c \in {FloorCell(p) : p \in points} : InGrid(c, rows, cols)}

\* the floored cells of the primitives a document goes through before it
\* raises
DocFloored(doc, min_x, min_y, rows, cols, multi) ==
    UNION {Floored(SampledPoints(doc.roads[p[1]], GeomAt(doc, p),
                                 min_x, min_y, multi), rows, cols) :
           p \in Before(doc)}

\* the translated centerline points of the primitives of a document that
\* the merged height script writes
HeightPoints(doc, min_x, min_y) ==
    LET w == DocWrites(doc, min_x, min_y, <<0, 0>>, TRUE)
        n == Len(w)
        geoms == SelectSeq(AllGeoms(doc.roads, 1),
                           LAMBDA g : g.has_xy /\ g.has_elev /\ g.elev_ok)
    IN  UNION {{<<CenterX(geoms[k].x, geoms[k], s) - min_x,
                  CenterY(geoms[k].y, geoms[k], s) - min_y>> :
                  s \in StepsMulti(geoms[k])} : k \in 1..n}

\* the sample points of the primitives a document goes through before it
\* raises
DocPoints(doc, min_x, min_y, multi) ==
    UNION {SampledPoints(doc.roads[p[1]], GeomAt(doc, p), min_x, min_y, multi) :
           p \in Before(doc)}

\* every sample of a set is written to its floored cell when that cell is
\* inside the grid, and causes no write otherwise
WrittenFloored(points, grid, rows, cols) ==
    \A p \in points :
       IF InGrid(FloorCell(p), rows, cols)
       THEN Cell(p[1], p[2]) = FloorCell(p) /\ FloorCell(p) \in grid
       ELSE ~InGrid(Cell(p[1], p[2]), rows, cols)

\* C17: every sample is written to the cell (floor(y' / resolution),
\* floor(x' / resolution)) of its translated coordinates when that cell is
\* inside the grid and is dropped otherwise, so that a sample with a
\* negative translated coordinate is not written to row 0 or column 0 and
\* no write addresses a cell outside the array; the cells set are exactly
\* the floored cells inside the grid, in the drivable-area scripts and in
\* the merged height script.
C17_SamplesFloored ==
    /\ (prog = "area_multi" /\ pc = "done") =>
          /\ \A c \in saved[1].grid : InGrid(c, saved[1].rows, saved[1].cols)
          /\ \A i \in 1..Len(batch) :
                WrittenFloored(DocPoints(DocAt(i), global_bounds.min_x,
                                         global_bounds.min_y, TRUE),
                               saved[1].grid, grid_rows, grid_cols)
          /\ saved[1].grid
                = UNION {DocFloored(DocAt(i), global_bounds.min_x,
                                    global_bounds.min_y, grid_rows, grid_cols,
                                    TRUE) : i \in 1..Len(batch)}
    /\ prog = "area" =>
          \A k \in 1..Len(saved) :
             /\ \A c \in saved[k].grid : InGrid(c, saved[k].rows, saved[k].cols)
             /\ WrittenFloored(DocPoints(DocAt(saved[k].doc),
                                         saved[k].bounds.min_x,
                                         saved[k].bounds.min_y, FALSE),
                               saved[k].grid, saved[k].rows, saved[k].cols)
             /\ saved[k].grid
                   = DocFloored(DocAt(saved[k].doc), saved[k].bounds.min_x,
                                saved[k].bounds.min_y, saved[k].rows,
                                saved[k].cols, FALSE)
    /\ (prog = "hight_multi" /\ pc = "done") =>
          /\ \A i \in 1..Len(xodr_paths) :
                WrittenFloored(HeightPoints(DocAt(xodr_paths[i]),
                                            global_bounds.min_x,
                                            global_bounds.min_y),
                               DOMAIN global_height, grid_rows, grid_cols)
          /\ DOMAIN global_height
                = UNION {Floored(HeightPoints(DocAt(xodr_paths[i]),
                                              global_bounds.min_x,
                                              global_bounds.min_y),
                                 grid_rows, grid_cols) :
                         i \in 1..Len(xodr_paths)}

-----------------------------------------------------------------------------
(* C18 *)

\* a drivable lane: type "driving", a <width> element, and a width that is
\* not zero
Drivable(lane) == lane.type = "driving" /\ lane.has_width /\ lane.a # 0

\* the cells inside the grid that the drivable lanes of a document reach,
\* over the primitives gone through before the document raises
DrivableCells(doc, min_x, min_y, rows, cols, multi) ==
    UNION {LET g == GeomAt(doc, p)
               lanes == doc.roads[p[1]].lanes
           IN  {c \in UNION {IF Drivable(lanes[k])
                             THEN LaneSamples(g, lanes[k].a,
                                              IF multi THEN StepsMulti(g)
                                              ELSE StepsFile(g), min_x, min_y)
                             ELSE {} : k \in 1..Len(lanes)} :
                  InGrid(c, rows, cols)} :
           p \in Before(doc)}

\* C18: only drivable lanes set cells of the occupancy grid: every cell of
\* a saved grid is a sample of a lane of type "driving" that has a <width>
\* element and a width that is not zero, so that a lane of another type, of
\* width zero or without <width> sets no cell and a document without any
\* drivable lane leaves the grid empty; in the per-file script and in the
\* merged script.
C18_OnlyDrivableWrite ==
    /\ prog = "area" =>
          \A k \in 1..Len(saved) :
             saved[k].grid
                \subseteq DrivableCells(DocAt(saved[k].doc),
                                        saved[k].bounds.min_x,
                                        saved[k].bounds.min_y,
                                        saved[k].rows, saved[k].cols, FALSE)
    /\ (prog = "area_multi" /\ pc = "done") =>
          saved[1].grid
             \subseteq UNION {DrivableCells(DocAt(i), global_bounds.min_x,
                                            global_bounds.min_y, grid_rows,
                                            grid_cols, TRUE) :
                              i \in 1..Len(batch)}

-----------------------------------------------------------------------------
(* C19 *)

\* the box g holds the box b
Contains(g, b) ==
    /\ g.min_x <= b.min_x /\ b.max_x <= g.max_x
    /\ g.min_y <= b.min_y /\ b.max_y <= g.max_y

\* the bounds the first stage gets for the document at a place of the
\* batch: none when the height script's scan returned None
StageBounds(i) ==
    IF prog = "area_multi" THEN {calculate_map_bounds(DocAt(i))}
    ELSE IF HightBounds(DocAt(i)).none THEN {}
    ELSE {HightBounds(DocAt(i)).b}

\* the first stage is over and the global bounds hold the bounds of every
\* document of the batch
AllFolded ==
    /\ pc \in {"fill", "done"}
    /\ \A i \in 1..Len(batch) : \A b \in StageBounds(i) :
          Contains(global_bounds, b)

\* during the first stage nothing is allocated and nothing is written;
\* after it all bounds are folded and the dimensions are those of the
\* global bounds
TwoPassState ==
    prog \in TwoStage =>
       /\ pc \in {"bounds", "crashed"} =>
             /\ global_driveable = {} /\ global_height = <<>>
             /\ grid_rows = 0 /\ grid_cols = 0 /\ saved = <<>>
       /\ pc \in {"fill", "done"} =>
             /\ AllFolded
             /\ grid_rows >= 1 /\ grid_cols >= 1
       /\ pc = "done" =>
             /\ saved[1].rows = grid_rows /\ saved[1].cols = grid_cols
             /\ prog = "area_multi" =>
                   /\ saved[1].T[1][3] = 0 - global_bounds.min_x
                   /\ saved[1].T[2][3] = 0 - global_bounds.min_y

\* a step that writes a cell is taken with all bounds folded, and a step
\* from the allocation on leaves dimensions and offset alone
TwoPassStep ==
    prog \in TwoStage =>
       /\ (global_driveable' # global_driveable
           \/ global_height' # global_height) => AllFolded
       /\ pc \in {"fill", "done"} =>
             /\ grid_rows' = grid_rows /\ grid_cols' = grid_cols
             /\ global_bounds' = global_bounds

\* C19: in the merged drivable-area and height scripts no cell is written
\* before the bounds of every document of the folder have been folded into
\* the global bounds; the global bounds hold the bounds of every document;
\* and the grid dimensions and the translation offset do not change from
\* the allocation to the saved artifacts.
C19_TwoPass ==
    /\ []TwoPassState
    /\ [][TwoPassStep]_vars

\* the merged drivable-area script has saved the grid of two documents
\* without errors, the global bounds are larger than the bounds of either
\* document, and cells were written
C19_Witness ==
    /\ prog = "area_multi" /\ pc = "done" /\ Len(batch) = 2 /\ errors = <<>>
    /\ AllFolded
    /\ \A i \in 1..2 : calculate_map_bounds(DocAt(i)) # global_bounds
    /\ saved[1].grid # {}
    /\ saved[1].rows = GridDim(global_bounds.max_y, global_bounds.min_y)

-----------------------------------------------------------------------------
(* C20 *)

\* a grid of the given dimensions has at least ceil(height / resolution)
\* rows and ceil(width / resolution) columns for the bounds b
HoldsExtent(rows, cols, b) ==
    /\ rows >= CeilDiv(b.max_y - b.min_y, resolution)
    /\ cols >= CeilDiv(b.max_x - b.min_x, resolution)

\* C20: the allocated grid has at least ceil(height / resolution) rows and
\* at least ceil(width / resolution) columns, where width and height are
\* the extents of the bounds the grid is made for; in the per-file and in
\* the merged drivable-area script, and in the per-file and in the merged
\* height script.
C20_GridHoldsExtent ==
    /\ prog = "area" =>
          \A k \in 1..Len(saved) :
             HoldsExtent(saved[k].rows, saved[k].cols, saved[k].bounds)
    /\ prog = "hight" =>
          \A k \in 1..Len(saved) :
             HoldsExtent(saved[k].rows, saved[k].cols,
                         HightBounds(DocAt(saved[k].doc)).b)
    /\ (prog \in TwoStage /\ pc \in {"fill", "done"}) =>
          HoldsExtent(grid_rows, grid_cols, global_bounds)

-----------------------------------------------------------------------------
(* C21 *)

\* xMin <= xMax and yMin <= yMax
WellFormed(row) == row[1] <= row[3] /\ row[2] <= row[4]

\* the rectangle of a row holds the start point and the straight-line end
\* point of the primitive
Encloses(row, g) ==
    /\ row[1] <= Min2(g.x, XEnd(g)) /\ row[3] >= Max2(g.x, XEnd(g))
    /\ row[2] <= Min2(g.y, YEnd(g)) /\ row[4] >= Max2(g.y, YEnd(g))

\* the primitives of the readable documents of the folder up to place n,
\* in traversal order
RECURSIVE MergedGeoms(_)
MergedGeoms(n) ==
    IF n = 0 THEN <<>>
    ELSE MergedGeoms(n - 1)
         \o (IF DocAt(n).ok THEN AllGeoms(DocAt(n).roads, 1) ELSE <<>>)

\* C21: every row of a bounding-box table is a well-formed axis-aligned
\* rectangle (xMin <= xMax, yMin <= yMax) that holds the start point and the
\* straight-line end point of its primitive, for every heading and every
\* length; in the per-file table and in the merged table.
C21_RowsEnclose ==
    /\ prog = "bbox" =>
          \A i \in 1..Len(saved) :
             LET geoms == AllGeoms(DocAt(saved[i].doc).roads, 1)
             IN  /\ Len(saved[i].table) = Len(geoms)
                 /\ \A k \in 1..Len(geoms) :
                       /\ WellFormed(saved[i].table[k])
                       /\ Encloses(saved[i].table[k], geoms[k])
    /\ (prog = "bbox_multi" /\ pc = "done") =>
          \A i \in 1..Len(saved) :
             LET geoms == MergedGeoms(Len(batch))
             IN  /\ Len(saved[i].table) = Len(geoms)
                 /\ \A k \in 1..Len(geoms) :
                       /\ WellFormed(saved[i].table[k])
                       /\ Encloses(saved[i].table[k], geoms[k])

-----------------------------------------------------------------------------
(* C22 *)

\* the rounded coordinate pairs of the primitives the merged script has gone
\* through in the documents before place n
RECURSIVE SeenPlaces(_)
SeenPlaces(n) ==
    IF n = 0 THEN {} ELSE SeenPlaces(n - 1) \cup PartialNodes(DocAt(n))

\* one node for every rounded coordinate pair seen, no two nodes with the
\* same pair, and the ids are 0..m-1 in the order of first occurrence
OneNodePerPlace ==
    /\ \A i, j \in 1..Len(global_nodes) :
          (global_nodes[i].x = global_nodes[j].x
           /\ global_nodes[i].y = global_nodes[j].y) => i = j
    /\ Coordinates(global_nodes) = SeenPlaces(idx - 1)
    /\ \A i \in 1..Len(global_nodes) : global_nodes[i].id = i - 1

\* C22: in the merged vector-map script, after any sequence of documents,
\* there is exactly one node for every distinct coordinate pair rounded to 4
\* decimals, the node ids are exactly 0..m-1, a node keeps the id of its
\* first occurrence, and a later primitive at the same rounded place adds no
\* node.
C22_OneNodePerPlace ==
    /\ []((prog = "lanid_multi" /\ pc = "files") => OneNodePerPlace)
    /\ [][prog = "lanid_multi" => IsPrefix(global_nodes, global_nodes')]_vars

-----------------------------------------------------------------------------
(* C23 *)

\* the keys of the lane records of the merged graph
KnownKeys ==
    {WayKey(global_nodes, global_ways[w]) : w \in 1..Len(global_ways)}

\* the merged script is about to compile the document at idx
CompilesNext == prog = "lanid_multi" /\ pc = "files" /\ idx <= Len(batch)

\* the lane table, the table-index map, the counter and the issued
\* identifiers are as they were
LaneStateKept ==
    /\ global_ways' = global_ways
    /\ global_mapping' = global_mapping
    /\ table_idx_counter' = table_idx_counter
    /\ existing_lane_ids' = existing_lane_ids
    /\ issued' = issued

\* what compiling one document does to the lane state: the records and the
\* entries that were there stay as they are; a record is added only for a
\* key that was not recorded, with one index and one identifier each; and a
\* document all of whose lanes are recorded changes nothing
KnownLaneSkipped ==
    CompilesNext =>
       LET old == Len(global_ways)
           added == (old + 1)..Len(global_ways')
       IN  /\ IsPrefix(global_ways, global_ways')
           /\ \A t \in DOMAIN global_mapping :
                 t \in DOMAIN global_mapping'
                 /\ global_mapping'[t] = global_mapping[t]
           /\ \A w \in added :
                 /\ WayKey(global_nodes', global_ways'[w]) \notin KnownKeys
                 /\ WayKey(global_nodes', global_ways'[w])
                       \in PartialKeys(DocAt(idx))
                 /\ \A v \in added :
                       WayKey(global_nodes', global_ways'[v])
                          = WayKey(global_nodes', global_ways'[w]) => v = w
           /\ table_idx_counter' = table_idx_counter + Cardinality(added)
           /\ existing_lane_ids'
                 = existing_lane_ids \cup {global_ways'[w].lane_id : w \in added}
           /\ Len(issued') = Len(issued) + Cardinality(added)
           /\ PartialKeys(DocAt(idx)) \subseteq KnownKeys => LaneStateKept

\* C23: in the merged vector-map script, going through a lane whose key
\* (ordered rounded node coordinates of its road, type, width attribute) is
\* already recorded leaves the lane table, the table-index map, the
\* table-index counter and the set of issued identifiers unchanged, so that
\* the record of the first occurrence stays as it is, with its identifier,
\* neighbors and topology.
C23_KnownLaneSkipped == [][KnownLaneSkipped]_vars

\* the merged script is through a second document whose only lanes were
\* recorded by the first one, and one identifier was issued in all
C23_Witness ==
    /\ prog = "lanid_multi" /\ pc = "files" /\ idx = 3
    /\ errors = <<>>
    /\ PartialKeys(DocAt(2)) # {}
    /\ PartialKeys(DocAt(2)) \subseteq PartialKeys(DocAt(1))
    /\ Len(global_ways) = Cardinality(PartialKeys(DocAt(1)))
    /\ Len(issued) = Len(global_ways)
    /\ table_idx_counter = Len(global_ways)

-----------------------------------------------------------------------------
(* C24 *)

\* for every lane of a document, in traversal order, the ids of the nodes
\* of its road when nodes are numbered by primitive from first on
RECURSIVE LaneNodeIds(_, _, _)
LaneNodeIds(roads, r, first) ==
    IF r > Len(roads) THEN <<>>
    ELSE [l \in 1..Len(roads[r].lanes) |->
             [k \in 1..Len(roads[r].geoms) |-> first + k - 1]]
         \o LaneNodeIds(roads, r + 1, first + Len(roads[r].geoms))

\* a graph with one node for every primitive of the document, numbered from
\* 0 in traversal order and placed at the primitive's start point, and one
\* lane record for every lane, with its own identifier out of those issued
\* and with the nodes of its road
OneToOneGraph(graph, doc) ==
    LET geoms == AllGeoms(doc.roads, 1)
        lanes == AllLanes(doc.roads, 1)
        refs == LaneNodeIds(doc.roads, 1, 0)
    IN  /\ Len(graph.nodes) = Len(geoms)
        /\ \A i \in 1..Len(geoms) :
              /\ graph.nodes[i].id = i - 1
              /\ graph.nodes[i].x = geoms[i].x /\ graph.nodes[i].y = geoms[i].y
        /\ Len(graph.ways) = Len(lanes)
        /\ \A w \in 1..Len(lanes) :
              /\ graph.ways[w].lane_type = lanes[w].type
              /\ graph.ways[w].width = lanes[w].wattr
              /\ graph.ways[w].geometry = refs[w]
              /\ IdLo <= graph.ways[w].lane_id /\ graph.ways[w].lane_id <= IdHi
              /\ \E i \in 1..Len(issued) : issued[i] = graph.ways[w].lane_id
              /\ \A v \in 1..Len(lanes) :
                    graph.ways[v].lane_id = graph.ways[w].lane_id => v = w

\* C24 as stated: the per-file graph of every document has exactly one node
\* for every geometry primitive, with the ids 0..n-1 in traversal order and
\* without deduplication, exactly one lane record for every lane of every
\* lane section, each with a freshly issued identifier, and the node
\* references of a lane are exactly the nodes of the primitives of its road.
C24_GraphOfEveryDocument ==
    prog = "lanid" =>
       \A k \in 1..Len(saved) : OneToOneGraph(saved[k], DocAt(saved[k].doc))

\* C24, for the documents that are parsed without an exception: their graph
\* has exactly one node for every geometry primitive, with the ids 0..n-1 in
\* traversal order and without deduplication, exactly one lane record for
\* every lane of every lane section, each with an identifier of its own
\* that was issued for it, and the node references of a lane are exactly
\* the nodes of the primitives of its road; the graph of a document that
\* raises is empty.
C24_FileGraph ==
    prog = "lanid" =>
       \A k \in 1..Len(saved) :
          IF saved[k].doc \in Failed
          THEN saved[k].nodes = <<>> /\ saved[k].ways = <<>>
               /\ saved[k].mapping = <<>>
          ELSE OneToOneGraph(saved[k], DocAt(saved[k].doc))

\* the per-file script has saved the graph of a document with two primitives
\* at the same rounded place and a lane: two nodes and one lane record
C24_Witness ==
    /\ prog = "lanid" /\ Len(saved) >= 1 /\ errors = <<>>
    /\ LET geoms == AllGeoms(DocAt(saved[1].doc).roads, 1)
       IN  /\ Len(geoms) = 2
           /\ Round4(geoms[1].x) = Round4(geoms[2].x)
           /\ Round4(geoms[1].y) = Round4(geoms[2].y)
    /\ Len(saved[1].nodes) = 2
    /\ Len(saved[1].ways) = 1
    /\ saved[1].ways[1].geometry = <<0, 1>>

-----------------------------------------------------------------------------
(* C25 *)

\* C25: when every identifier of the range has been issued, a call of
\* generate_unique_lane_id ends with an explicit failure: no call stays in
\* its loop forever, and no call returns an identifier that was in the set
\* already, so that the identifiers of one set are pairwise distinct.
C25_ExhaustionFails ==
    /\ pc # "hung"
    /\ prog = "lanid_multi" =>
          \A i, j \in 1..Len(issued) : issued[i] = issued[j] => i = j

-----------------------------------------------------------------------------
(* C26 *)

\* the steps at arc lengths 0, resolution, 2 * resolution, ... up to and
\* including the largest multiple of the resolution within the length
ArcSteps(g) == {s \in 0..(g.length \div resolution) : s * resolution <= g.length}

\* the cells inside the grid that the drivable lanes of a document reach
\* when the centerline is sampled at those steps
ArcCells(doc, min_x, min_y, rows, cols) ==
    UNION {LET g == GeomAt(doc, p)
               lanes == doc.roads[p[1]].lanes
           IN  {c \in UNION {IF Drivable(lanes[k])
                             THEN LaneSamples(g, lanes[k].a, ArcSteps(g),
                                              min_x, min_y)
                             ELSE {} : k \in 1..Len(lanes)} :
                  InGrid(c, rows, cols)} :
           p \in Before(doc)}

\* the places of the batch whose documents a raster script has gone through
Rastered ==
    IF prog \in {"area", "hight"} THEN 1..(idx - 1)
    ELSE IF prog \in TwoStage /\ pc = "done" THEN 1..Len(batch)
    ELSE {}

\* C26: for every primitive the rasterizer samples the centerline at the
\* arc lengths 0, resolution, 2 * resolution, ... up to and including the
\* largest multiple of the resolution that does not exceed the length, in
\* the per-file scripts and in the merged scripts alike, so that both modes
\* sample the same centerline points of a primitive and the saved occupancy
\* grid holds the cells of all those samples.
C26_SameCenterline ==
    /\ \A i \in Rastered : \A p \in Before(DocAt(i)) :
          LET g == GeomAt(DocAt(i), p)
          IN  /\ prog \in {"area", "hight"} => StepsFile(g) = ArcSteps(g)
              /\ prog \in TwoStage => StepsMulti(g) = ArcSteps(g)
              /\ StepsFile(g) = StepsMulti(g)
    /\ prog = "area" =>
          \A k \in 1..Len(saved) :
             ArcCells(DocAt(saved[k].doc), saved[k].bounds.min_x,
                      saved[k].bounds.min_y, saved[k].rows, saved[k].cols)
                \subseteq saved[k].grid
    /\ (prog = "area_multi" /\ pc = "done") =>
          \A i \in 1..Len(batch) :
             ArcCells(DocAt(i), global_bounds.min_x, global_bounds.min_y,
                      grid_rows, grid_cols) \subseteq saved[1].grid

-----------------------------------------------------------------------------
(* C27 *)

\* every document of the folder can be read and every primitive has its
\* start point and an elevation
AllElevated ==
    \A i \in 1..Len(batch) :
       /\ DocAt(i).ok
       /\ \A p \in Range(PlaceSeq(DocAt(i), 1)) :
             /\ GeomAt(DocAt(i), p).has_xy
             /\ GeomAt(DocAt(i), p).has_elev
             /\ GeomAt(DocAt(i), p).elev_ok

\* the cells the fill loop of the merged height script writes for the
\* documents of the folder with the bounds and the dimensions of the state
HeightPassCells == UNION {PartialHeights(DocAt(i)) : i \in 1..Len(batch)}

\* C27: the occupancy pass and the height pass go through the same samples:
\* for the same documents, bounds and resolution, with an elevation on every
\* primitive, the cells the height pass writes are the cells the occupancy
\* pass sets to 1, lateral samples across the drivable lanes included.
C27_SameCells ==
    (prog = "area_multi" /\ pc = "done" /\ AllElevated) =>
       HeightPassCells = saved[1].grid

-----------------------------------------------------------------------------
(* C28 *)

\* every node reference of every lane record is the id of a node of the
\* graph, and no two nodes of the graph have the same id
RefsResolve(nodes, ways) ==
    /\ \A w \in 1..Len(ways) : \A k \in 1..Len(ways[w].geometry) :
          \E n \in 1..Len(nodes) : nodes[n].id = ways[w].geometry[k]
    /\ \A m, n \in 1..Len(nodes) : nodes[m].id = nodes[n].id => m = n

\* C28: in every graph the per-file script and the merged script emit, and
\* in the merged graph after any sequence of documents, every node reference
\* of every lane record is the id of a node of the emitted node set, and the
\* node ids are pairwise distinct.
C28_RefsResolve ==
    /\ prog \in {"lanid", "lanid_multi"} =>
          \A k \in 1..Len(saved) : RefsResolve(saved[k].nodes, saved[k].ways)
    /\ prog = "lanid_multi" => RefsResolve(global_nodes, global_ways)

\* the merged script has saved a graph of two documents, one of which
\* raised after it had added a node; a lane record of the graph refers to
\* two nodes
C28_Witness ==
    /\ prog = "lanid_multi" /\ pc = "done" /\ Len(batch) = 2
    /\ errors # <<>>
    /\ Len(saved) = 1 /\ Len(saved[1].nodes) >= 3 /\ Len(saved[1].ways) = 2
    /\ \E w \in 1..2 : Len(saved[1].ways[w].geometry) = 2
    /\ RefsResolve(saved[1].nodes, saved[1].ways)

-----------------------------------------------------------------------------
(* C29 *)

\* a call is in the loop and a value of the range is not in the set
LoopWithFree == pc = "while" /\ GenDraws \ existing_lane_ids # {}

\* the step that returns: the value returned was not in the set, and the
\* set after the call is the set before it and that value; the turns of
\* the loop that do not return leave the set alone
ReturnsFresh ==
    /\ (pc = "while" /\ pc' = "return") =>
          /\ last_draw' \notin existing_lane_ids
          /\ existing_lane_ids' = existing_lane_ids \cup {last_draw'}
          /\ issued' = Append(issued, last_draw')
    /\ (pc = "while" /\ pc' = "while") =>
          existing_lane_ids' = existing_lane_ids
    /\ existing_lane_ids \subseteq existing_lane_ids'

\* C29: whenever at least one identifier of the range is not yet issued, a
\* call of generate_unique_lane_id eventually returns, given that every
\* identifier is drawn again and again; the identifier returned was not in
\* the set before the call, and the call adds exactly that identifier to the
\* set and removes none.
C29_ReturnsFresh ==
    /\ LoopWithFree ~> pc = "return"
    /\ [][ReturnsFresh]_vars

\* a call has returned the last value of the range that was free: the set
\* held all values but that one before the call, and holds all now
C29_Witness ==
    /\ pc = "return"
    /\ existing_lane_ids = GenDraws
    /\ Len(issued) = GenIds
    /\ last_draw = issued[Len(issued)]

-----------------------------------------------------------------------------
(* xosc2csv_batch_2.py: the scenario folders of the trajectory converter *)

\* the bound on the number of entries os.listdir(input_dir) returns
MaxFolders == 3

\* expected_size of the main block, in units of 1024 bytes
ExpectedSize == 35
\* 3.0 (seconds), the limit of "if time < 3.0"; times are whole seconds
ThreeSeconds == 3
\* vertex.get("time") of a vertex without the attribute
NoTime == 0 - 1
\* the .xosc file of a folder without one
NoXosc == [parses |-> FALSE, trajectories |-> <<>>, none |-> TRUE]

Trajectory(trajectory_name, times) ==
    [name |-> trajectory_name,
     vertices |-> [i \in 1..Len(times) |->
                      [time |-> times[i], position |-> TRUE]]]
Xosc(trajs) == [parses |-> TRUE, trajectories |-> trajs, none |-> FALSE]
\* xodr_size is 0 for a folder without an .xodr file
Folder(dir, size, xosc) == [is_dir |-> dir, xodr_size |-> size, xosc |-> xosc]

FolderSet == {"readme", "map_only", "big_map", "late", "broken", "no_time",
              "lone", "traffic"}

\* the entries of the input directory the model draws from:
\*   readme    a file that is no folder
\*   map_only  a folder with a map of the expected size and no scenario
\*   big_map   a scenario with traffic beside a map of twice that size
\*   late      a scenario whose only other vehicle appears at 3 s
\*   broken    a scenario file that is not well-formed XML
\*   no_time   a scenario with a vertex without a time
\*   lone      a scenario of one vehicle that is not the ego vehicle
\*   traffic   a scenario with two other vehicles, one present at every time
FolderOf(kind) ==
    CASE kind = "readme" -> Folder(FALSE, 0, NoXosc)
      [] kind = "map_only" -> Folder(TRUE, ExpectedSize, NoXosc)
      [] kind = "big_map" ->
             Folder(TRUE, 2 * ExpectedSize,
                    Xosc(<<Trajectory("Ego", <<0, 1>>),
                           Trajectory("A1", <<0, 1>>)>>))
      [] kind = "late" ->
             Folder(TRUE, 0,
                    Xosc(<<Trajectory("Ego", <<0, 3, 4>>),
                           Trajectory("A1", <<3, 4>>)>>))
      [] kind = "broken" ->
             Folder(TRUE, ExpectedSize, [NoXosc EXCEPT !.none = FALSE])
      [] kind = "no_time" ->
             Folder(TRUE, 0,
                    Xosc(<<Trajectory("A1", <<0>>),
                           Trajectory("A2", <<1, NoTime>>)>>))
      [] kind = "lone" -> Folder(TRUE, 0, Xosc(<<Trajectory("A1", <<0, 1>>)>>))
      [] kind = "traffic" ->
             Folder(TRUE, ExpectedSize,
                    Xosc(<<Trajectory("Ego", <<0, 1>>),
                           Trajectory("A1", <<0, 1>>),
                           Trajectory("A2", <<1>>)>>))

\* 0.98 * expected_size < actual_size < 1.02 * expected_size
check_file_size(actual_size, expected_size) ==
    /\ 98 * expected_size < 100 * actual_size
    /\ 100 * actual_size < 102 * expected_size

\* "Ego" in trajectory_name, for the names of the model
IsEgo(trajectory_name) == trajectory_name = "Ego"
\* the formatted track id: zero for the ego vehicle, else abs(hash(name)),
\* which the model writes as the name
EgoTrack == "0"
TrackId(trajectory_name) ==
    IF IsEgo(trajectory_name) THEN EgoTrack ELSE trajectory_name

\* the entries one trajectory appends: one per vertex with a position
TrajectoryEntries(t) ==
    LET vs == SelectSeq(t.vertices, LAMBDA v : v.position)
    IN  [i \in 1..Len(vs) |->
            [TIMESTAMP |-> vs[i].time, TRACK_ID |-> TrackId(t.name),
             OBJECT_TYPE |-> IF IsEgo(t.name) THEN "AV" ELSE "AGENT"]]

\* trajectory_data after the loop over root.findall(".//Trajectory")
RECURSIVE ParsedEntries(_, _)
ParsedEntries(trajs, k) ==
    IF k = 0 THEN <<>>
    ELSE ParsedEntries(trajs, k - 1) \o TrajectoryEntries(trajs[k])

\* the entries of the first 3 seconds that count as agents
EarlyAgents(data, tracks) ==
    {i \in 1..Len(data) : /\ data[i].OBJECT_TYPE = "AGENT"
                          /\ data[i].TRACK_ID \in tracks
                          /\ data[i].TIMESTAMP < ThreeSeconds}

\* the first key of obstacle_candidates, in insertion order, whose timestamps
\* are all_timestamps; "" when the loop ends without break
Obstacle(data) ==
    LET all_timestamps == {data[i].TIMESTAMP : i \in 1..Len(data)}
        fits == {i \in 1..Len(data) :
                    /\ data[i].OBJECT_TYPE = "AGENT"
                    /\ {data[j].TIMESTAMP :
                           j \in {k \in 1..Len(data) :
                                     data[k].TRACK_ID = data[i].TRACK_ID}}
                           = all_timestamps}
    IN  IF fits = {} THEN ""
        ELSE data[CHOOSE i \in fits : \A j \in fits : i <= j].TRACK_ID

\* the rows of the fixed ego position, one per timestamp
RECURSIVE EgoRows(_)
EgoRows(times) ==
    IF times = {} THEN <<>>
    ELSE LET t == CHOOSE u \in times : \A w \in times : u <= w
         IN  <<[TIMESTAMP |-> t, TRACK_ID |-> EgoTrack, OBJECT_TYPE |-> "AV"]>>
                 \o EgoRows(times \ {t})

\* trajectory_data.sort(key=lambda x: x["TIMESTAMP"]): a stable sort
RECURSIVE SortByTime(_, _)
SortByTime(data, times) ==
    IF times = {} THEN <<>>
    ELSE LET t == CHOOSE u \in times : \A w \in times : u <= w
         IN  SelectSeq(data, LAMBDA e : e.TIMESTAMP = t)
                 \o SortByTime(data, times \ {t})

\* parse_xosc_trajectory: the rows and agent_num, or an exception: of
\* ET.parse, or of float(vertex.get("time")) for a vertex without a time
parse_xosc_trajectory(xosc, use_obstacle_as_ego) ==
    IF \/ ~xosc.parses
       \/ \E k \in 1..Len(xosc.trajectories) :
              \E i \in 1..Len(xosc.trajectories[k].vertices) :
                  xosc.trajectories[k].vertices[i].time = NoTime
    THEN [raised |-> TRUE, trajectory_data |-> <<>>, agent_num |-> 0]
    ELSE LET data == ParsedEntries(xosc.trajectories, Len(xosc.trajectories))
             all_timestamps == {data[i].TIMESTAMP : i \in 1..Len(data)}
             agents == {data[i].TRACK_ID : i \in 1..Len(data)}
             track == IF use_obstacle_as_ego THEN Obstacle(data) ELSE ""
             rows ==
                 IF track # ""
                 THEN [i \in 1..Len(data) |->
                          IF data[i].TRACK_ID = track
                          THEN [data[i] EXCEPT !.OBJECT_TYPE = "AV",
                                               !.TRACK_ID = EgoTrack]
                          ELSE data[i]]
                 ELSE data \o EgoRows(all_timestamps)
         IN  [raised |-> FALSE,
              trajectory_data |-> SortByTime(rows, all_timestamps),
              agent_num |-> Cardinality(EarlyAgents(data, agents))
                                - Cardinality(EarlyAgents(data, {track}))]

\* csv_file_name without ".csv": the counter or the folder's name, which
\* the model writes as the folder's place in the listing
CsvFileName(sequential_filenames, cnt, folder_name) ==
    [sequential |-> sequential_filenames,
     stem |-> IF sequential_filenames THEN cnt ELSE folder_name]

\* what one turn of the loop over os.listdir(input_dir) comes to
FolderOutcome(folder, opts) ==
    LET r == parse_xosc_trajectory(folder.xosc, opts.use_obstacle_as_ego)
    IN  IF ~folder.is_dir THEN "ignored"
        ELSE IF /\ folder.xodr_size # 0
                /\ opts.check_size
                /\ ~check_file_size(folder.xodr_size, opts.expected_size)
        THEN "size"
        ELSE IF folder.xosc.none THEN "ignored"
        ELSE IF r.raised THEN "raised"
        ELSE IF r.agent_num = 0 THEN "no_agent"
        ELSE "saved"

\* a counter that also counts the folders passed without a file
CounterCountsFolders(cnt, outcome) == cnt + 1

\* counter += 1 comes after save_to_csv only
CounterAfter(cnt, outcome) == IF outcome = "saved" THEN cnt + 1 ELSE cnt

RECURSIVE Listings(_)
Listings(n) ==
    IF n = 0 THEN {<<>>}
    ELSE Listings(n - 1)
             \cup {Append(l, f) : l \in {m \in Listings(n - 1) :
                                             Len(m) = n - 1},
                                   f \in FolderSet}

\* counter = 1, before the loop over the listing
InitXosc ==
    /\ prog = "xosc2csv"
    /\ batch \in Listings(MaxFolders)
    /\ options \in [use_obstacle_as_ego : BOOLEAN,
                     sequential_filenames : BOOLEAN, check_size : BOOLEAN,
                     expected_size : {ExpectedSize}]
    /\ counter = 1
    /\ pc = "folders"
    /\ idx = 1
    /\ ret_bounds = [doc |-> 0, none |-> TRUE, b |-> NoBounds]
    /\ global_bounds = NoBounds
    /\ xodr_paths = <<>>
    /\ grid_rows = 0
    /\ grid_cols = 0
    /\ global_driveable = {}
    /\ global_height = <<>>
    /\ global_nodes = <<>>
    /\ global_ways = <<>>
    /\ global_mapping = <<>>
    /\ existing_lane_ids = {}
    /\ table_idx_counter = 0
    /\ issued = <<>>
    /\ last_draw = 0
    /\ all_bboxes = <<>>
    /\ errors = <<>>
    /\ saved = <<>>

\* one turn of "for folder_name in os.listdir(input_dir)"
XoscFolder ==
    /\ prog = "xosc2csv"
    /\ pc = "folders"
    /\ idx <= Len(batch)
    /\ LET folder == FolderOf(batch[idx])
           outcome == FolderOutcome(folder, options)
           r == parse_xosc_trajectory(folder.xosc,
                                      options.use_obstacle_as_ego)
       IN  /\ saved' = IF outcome = "saved"
                       THEN Append(saved,
                                [doc |-> idx,
                                 name |-> CsvFileName(
                                     options.sequential_filenames,
                                     counter, idx),
                                 rows |-> r.trajectory_data])
                       ELSE saved
           /\ counter' = CounterAfter(counter, outcome)
           /\ errors' = IF outcome \in {"size", "no_agent", "raised"}
                        THEN Append(errors, idx) ELSE errors
    /\ idx' = idx + 1
    /\ UNCHANGED <<inputVars, pc, last_draw, ret_bounds, gridVars, graphVars,
                   issued, all_bboxes>>

\* print("Batch processing completed.")
XoscCompleted ==
    /\ prog = "xosc2csv"
    /\ pc = "folders"
    /\ idx > Len(batch)
    /\ pc' = "done"
    /\ UNCHANGED <<inputVars, idx, counter, last_draw, ret_bounds, gridVars,
                   graphVars, issued, all_bboxes, errors, saved>>

NextXosc == XoscFolder \/ XoscCompleted

SpecXosc == InitXosc /\ [][NextXosc]_vars

-----------------------------------------------------------------------------
(* C30: sequential file names have no gap *)

\* the files written so far carry the stems 1..k, in that order
NamedInSequence ==
    \A i \in 1..Len(saved) :
        saved[i].name = [sequential |-> TRUE, stem |-> i]

\* C30: with sequential_filenames enabled, after any number of scenario
\* folders the files saved so far are named 1.csv..k.csv, k being the number
\* of scenarios saved, and the counter stands at k + 1: a folder passed
\* without a file (size check failed, no agent in the first 3 seconds, an
\* exception while processing, no folder or no scenario at all) has not
\* advanced it.
C30_SequentialNames ==
    (prog = "xosc2csv" /\ options.sequential_filenames) =>
        /\ NamedInSequence
        /\ counter = Len(saved) + 1

\* three folders gone through, the first and the third saved as 1.csv and
\* 2.csv, the second skipped with a message
C30_Witness ==
    /\ prog = "xosc2csv"
    /\ options.sequential_filenames
    /\ pc = "done"
    /\ Len(saved) = 2
    /\ saved[1].doc = 1
    /\ saved[2].doc = 3
    /\ errors = <<2>>
    /\ counter = 3

====
